---------------------------- MODULE Spec2Model ----------------------------
(***************************************************************************)
(* A model of the toy-language compiler: lexer, parser, semantic analyzer, *)
(* optimizer and AArch64 code generator, each translated from its Rust     *)
(* source.  Text is a sequence of one-character strings; lexemes, names    *)
(* and string payloads are TLA+ strings.                                   *)
(***************************************************************************)
EXTENDS Integers, Sequences, FiniteSets, TLC

(***************************************************************************)
(* Option<T>                                                               *)
(***************************************************************************)
None == [some |-> FALSE]
Some(x) == [some |-> TRUE, v |-> x]

(***************************************************************************)
(* The AST (crate::ast): Expr and Stmt as tagged records.                  *)
(***************************************************************************)
ExprIntegerLiteral(n) == [k |-> "IntegerLiteral", n |-> n]
ExprStringLiteral(s) == [k |-> "StringLiteral", s |-> s]
ExprBooleanLiteral(b) == [k |-> "BooleanLiteral", b |-> b]
ExprIdentifier(name) == [k |-> "Identifier", name |-> name]
ExprAssign(name, value) == [k |-> "Assign", name |-> name, value |-> value]
ExprBinary(left, op, right) ==
    [k |-> "Binary", left |-> left, op |-> op, right |-> right]
ExprMaybe == [k |-> "Maybe"]

BinOps == {"Add", "Sub", "GreaterThan", "LessThan"}

StmtVarDeclaration(name, value) ==
    [k |-> "VarDeclaration", name |-> name, value |-> value]
StmtPrint(expr) == [k |-> "Print", expr |-> expr]
StmtIf(condition, then_block, else_block) ==
    [k |-> "If", condition |-> condition, then_block |-> then_block,
     else_block |-> else_block]
StmtBlock(stmts) == [k |-> "Block", stmts |-> stmts]
StmtExprStmt(expr) == [k |-> "ExprStmt", expr |-> expr]
StmtPaywall(amount) == [k |-> "Paywall", amount |-> amount]

(***************************************************************************)
(* Finite maps (HashMap<String, V>) as functions on a set of keys.         *)
(***************************************************************************)
EmptyMap == [x \in {} |-> x]
MapInsert(m, key, val) == [x \in DOMAIN m \cup {key} |-> IF x = key THEN val ELSE m[x]]
MapRemove(m, key) == [x \in DOMAIN m \ {key} |-> m[x]]


(***************************************************************************)
(* OPTIMIZER  (src/src/optimizer/optimizer.rs)                             *)
(*                                                                         *)
(* ConstValue, and the methods of Optimizer.  The methods that take &self  *)
(* read the constants table; those that take &mut self return the new      *)
(* table beside their result.                                              *)
(***************************************************************************)
ConstInt(n) == [t |-> "Int", n |-> n]
ConstString(s) == [t |-> "String", s |-> s]
ConstBool(b) == [t |-> "Bool", b |-> b]

\* the iteration limit of the fixed-point loop
MaxIterations == 100

\* i32 `+` and `-`: the literals of the inputs below keep every sum and
\* difference far inside the i32 range, where they are the integer ones.
fold_binary_operation(left, op, right) ==
    CASE left.t = "Int" /\ op = "Add" /\ right.t = "Int" ->
            Some(ExprIntegerLiteral(left.n + right.n))
      [] left.t = "Int" /\ op = "Sub" /\ right.t = "Int" ->
            Some(ExprIntegerLiteral(left.n - right.n))
      [] left.t = "Int" /\ op = "GreaterThan" /\ right.t = "Int" ->
            Some(ExprIntegerLiteral(IF left.n > right.n THEN 1 ELSE 0))
      [] left.t = "Int" /\ op = "LessThan" /\ right.t = "Int" ->
            Some(ExprIntegerLiteral(IF left.n < right.n THEN 1 ELSE 0))
      [] left.t = "String" /\ op = "Add" /\ right.t = "String" ->
            Some(ExprStringLiteral(left.s \o right.s))
      [] OTHER -> None

\* Every operator below binds an intermediate result (a `let` of the source)
\* as a parameter of the operator that continues the function, so that the
\* result is computed once.

RECURSIVE try_evaluate_to_const(_, _)
RECURSIVE try_evaluate_binary(_, _, _, _)

\* None when the expression depends on a value not known at compile time
try_evaluate_to_const(constants, expr) ==
    CASE expr.k = "IntegerLiteral" -> Some(ConstInt(expr.n))
      [] expr.k = "StringLiteral" -> Some(ConstString(expr.s))
      [] expr.k = "Identifier" ->
            IF expr.name \in DOMAIN constants
            THEN Some(constants[expr.name]) ELSE None
      [] expr.k = "Binary" ->
            try_evaluate_binary(constants,
                                try_evaluate_to_const(constants, expr.left),
                                expr.op,
                                try_evaluate_to_const(constants, expr.right))
      [] expr.k = "Assign" -> None

\* try_evaluate_to_const, the Binary arm from left_val and right_val on
try_evaluate_binary(constants, left_val, op, right_val) ==
    IF ~left_val.some THEN None
    ELSE IF ~right_val.some THEN None
    ELSE LET folded == fold_binary_operation(left_val.v, op, right_val.v)
         IN  IF folded.some THEN try_evaluate_to_const(constants, folded.v)
             ELSE None

RECURSIVE optimize_expression(_, _)
RECURSIVE optimize_binary_expression(_, _, _, _)
RECURSIVE optimize_binary_operands(_, _, _, _)

optimize_expression(constants, expr) ==
    CASE expr.k \in {"IntegerLiteral", "StringLiteral"} -> expr
      [] expr.k = "Identifier" ->
            IF expr.name \in DOMAIN constants
            THEN LET const_val == constants[expr.name]
                 IN  CASE const_val.t = "Int" -> ExprIntegerLiteral(const_val.n)
                       [] const_val.t = "String" -> ExprStringLiteral(const_val.s)
                       [] const_val.t = "Bool" -> ExprIdentifier(expr.name)
            ELSE ExprIdentifier(expr.name)
      [] expr.k = "Binary" ->
            optimize_binary_expression(constants, expr.left, expr.op, expr.right)
      [] expr.k = "Assign" ->
            ExprAssign(expr.name, optimize_expression(constants, expr.value))

\* optimize_binary_expression, steps 2 to 4, from the constants the two
\* optimized operands evaluate to
simplify_binary(opt_left, op, opt_right, left_const, right_const) ==
    LET folded == IF left_const.some /\ right_const.some
                  THEN fold_binary_operation(left_const.v, op, right_const.v)
                  ELSE None
        IsZero(c) == c.some /\ c.v.t = "Int" /\ c.v.n = 0
        unfolded == ExprBinary(opt_left, op, opt_right)
    IN  IF folded.some THEN folded.v
        ELSE CASE op = "Add" ->
                    IF IsZero(right_const) THEN opt_left
                    ELSE IF IsZero(left_const) THEN opt_right
                    ELSE unfolded
               [] op = "Sub" ->
                    IF IsZero(right_const) THEN opt_left
                    ELSE IF opt_left.k = "Identifier" /\ opt_right.k = "Identifier"
                            /\ opt_left.name = opt_right.name
                         THEN ExprIntegerLiteral(0)
                    ELSE unfolded
               [] OTHER -> unfolded

\* optimize_binary_expression from the two optimized operands on
optimize_binary_operands(constants, opt_left, op, opt_right) ==
    simplify_binary(opt_left, op, opt_right,
                    try_evaluate_to_const(constants, opt_left),
                    try_evaluate_to_const(constants, opt_right))

optimize_binary_expression(constants, left, op, right) ==
    optimize_binary_operands(constants,
                             optimize_expression(constants, left),
                             op,
                             optimize_expression(constants, right))

\* what a statement's optimization yields: the table afterwards, and the
\* statement kept (None when it is eliminated)
StmtResult(constants, stmt) == [constants |-> constants, stmt |-> stmt]
\* what a statement list's optimization yields
StmtsResult(constants, stmts) == [stmts |-> stmts, constants |-> constants]

RECURSIVE optimize_statements(_, _)
RECURSIVE optimize_statements_rest(_, _)
RECURSIVE optimize_statement(_, _)
RECURSIVE optimize_if_statement(_, _, _, _)
RECURSIVE optimize_if_branches(_, _, _, _)
RECURSIVE optimize_if_else(_, _, _)

\* optimize_statements: the push of one optimized statement, when there is one
push_optimized(first) ==
    StmtsResult(first.constants, IF first.stmt.some THEN <<first.stmt.v>> ELSE <<>>)

\* optimize_statements: the statements pushed by the loop's later rounds follow
\* those pushed by its earlier rounds
extend_optimized(stmts, rest) == StmtsResult(rest.constants, stmts \o rest.stmts)

\* The for loop over the statements.  Its state after a round is the table
\* and the statements pushed so far, so the loop over a list is the loop over
\* its first half followed, from the state that leaves, by the loop over its
\* second half; the halving keeps the evaluation of a long list shallow.
optimize_statements(constants, statements) ==
    IF statements = <<>> THEN StmtsResult(constants, <<>>)
    ELSE IF Len(statements) = 1
    THEN push_optimized(optimize_statement(constants, statements[1]))
    ELSE optimize_statements_rest(
             optimize_statements(constants,
                                 SubSeq(statements, 1, Len(statements) \div 2)),
             SubSeq(statements, Len(statements) \div 2 + 1, Len(statements)))

\* optimize_statements: the rest of the loop after its earlier rounds gave `done`
optimize_statements_rest(done, statements) ==
    extend_optimized(done.stmts, optimize_statements(done.constants, statements))

\* optimize_statement, VarDeclaration arm, step 2 on
declare_optimized(constants, name, optimized_value) ==
    LET const_val == try_evaluate_to_const(constants, optimized_value)
    IN  StmtResult(IF const_val.some
                   THEN MapInsert(constants, name, const_val.v)
                   ELSE MapRemove(constants, name),
                   Some(StmtVarDeclaration(name, optimized_value)))

optimize_statement(constants, stmt) ==
    CASE stmt.k = "VarDeclaration" ->
            declare_optimized(constants, stmt.name,
                              optimize_expression(constants, stmt.value))
      [] stmt.k = "Print" ->
            StmtResult(constants,
                       Some(StmtPrint(optimize_expression(constants, stmt.expr))))
      [] stmt.k = "If" ->
            optimize_if_statement(constants, stmt.condition, stmt.then_block,
                                  stmt.else_block)

optimize_if_statement(constants, condition, then_block, else_block) ==
    optimize_if_branches(constants, optimize_expression(constants, condition),
                         then_block, else_block)

\* the If returned for a condition that is constantly true
if_always_true(optimized_condition, optimized_then) ==
    StmtResult(optimized_then.constants,
               Some(StmtIf(optimized_condition, optimized_then.stmts, None)))

\* the If returned for a condition that is constantly false, with an else
if_always_false(optimized_condition, optimized_else) ==
    StmtResult(optimized_else.constants,
               Some(StmtIf(optimized_condition, <<>>, Some(optimized_else.stmts))))

\* the If returned by step 3 when there is an else block
if_both(optimized_condition, then_stmts, optimized_else) ==
    StmtResult(optimized_else.constants,
               Some(StmtIf(optimized_condition, then_stmts,
                           Some(optimized_else.stmts))))

\* optimize_if_statement, steps 2 and 3
optimize_if_branches(constants, optimized_condition, then_block, else_block) ==
    LET const_val == try_evaluate_to_const(constants, optimized_condition)
    IN  IF const_val.some /\ const_val.v.t = "Bool"
        THEN IF const_val.v.b
             THEN if_always_true(optimized_condition,
                                 optimize_statements(constants, then_block))
             ELSE IF else_block.some
                  THEN if_always_false(optimized_condition,
                                       optimize_statements(constants, else_block.v))
                  ELSE StmtResult(constants, None)
        ELSE \* not constant, or a constant that is no Bool
             optimize_if_else(optimized_condition,
                              optimize_statements(constants, then_block),
                              else_block)

\* optimize_if_statement, step 3 after the then block
optimize_if_else(optimized_condition, optimized_then, else_block) ==
    IF else_block.some
    THEN if_both(optimized_condition, optimized_then.stmts,
                 optimize_statements(optimized_then.constants, else_block.v))
    ELSE StmtResult(optimized_then.constants,
                    Some(StmtIf(optimized_condition, optimized_then.stmts, None)))

RECURSIVE collect_used_in_expression(_)
collect_used_in_expression(expr) ==
    CASE expr.k \in {"IntegerLiteral", "StringLiteral"} -> {}
      [] expr.k = "Identifier" -> {expr.name}
      [] expr.k = "Binary" ->
            collect_used_in_expression(expr.left)
                \cup collect_used_in_expression(expr.right)
      [] expr.k = "Assign" ->
            {expr.name} \cup collect_used_in_expression(expr.value)

RECURSIVE collect_used_in_statement(_)
collect_used_in_statement(stmt) ==
    CASE stmt.k = "VarDeclaration" -> collect_used_in_expression(stmt.value)
      [] stmt.k = "Print" -> collect_used_in_expression(stmt.expr)
      [] stmt.k = "If" ->
            collect_used_in_expression(stmt.condition)
                \cup UNION {collect_used_in_statement(stmt.then_block[i]) :
                                i \in DOMAIN stmt.then_block}
                \cup (IF stmt.else_block.some
                      THEN UNION {collect_used_in_statement(stmt.else_block.v[i]) :
                                      i \in DOMAIN stmt.else_block.v}
                      ELSE {})

\* the names one traversal of the statements inserts into used_variables
collect_used_variables(statements) ==
    UNION {collect_used_in_statement(statements[i]) : i \in DOMAIN statements}

\* a dead code elimination that removes nothing
eliminate_dead_code_keep_all(used_variables, statements) == statements

\* filter_map over the top-level statements only
eliminate_dead_code(used_variables, statements) ==
    SelectSeq(statements,
              LAMBDA stmt : stmt.k = "VarDeclaration" => stmt.name \in used_variables)

\* the loop body of optimize from pass 3 on: `changed` compares the two
\* Debug renderings, which differ exactly when the statement lists differ
finish_iteration(before, used, constants_after, after) ==
    [constants |-> constants_after, used_variables |-> used,
     current |-> after, changed |-> (before # after)]

\* the loop body of optimize after pass 2
eliminate_iteration(before, used, optimized) ==
    finish_iteration(before, used, optimized.constants,
                     eliminate_dead_code(used, optimized.stmts))

\* One iteration of the loop of optimize, from the statements `current` and
\* the table left by whatever ran before on this instance.
optimize_iteration(constants, current) ==
    eliminate_iteration(current, collect_used_variables(current),
                        optimize_statements(constants, current))

(***************************************************************************)
(* Inputs of the optimizer: programs of at most MaxProgLen top-level       *)
(* statements drawn from OptStmtPool, and two long chains of declarations. *)
(***************************************************************************)
MaxProgLen == 3

SeqsUpTo(S, n) == UNION {[1..m -> S] : m \in 0..n}

OptNames == {"a", "b"}
OptDecls ==
    {StmtVarDeclaration(x, e) :
        x \in OptNames, e \in {ExprIntegerLiteral(1), ExprIdentifier("a")}}
OptPrints ==
    {StmtPrint(e) :
        e \in {ExprIdentifier("a"), ExprIdentifier("b"), ExprIntegerLiteral(5),
               ExprAssign("a", ExprIntegerLiteral(0))}}
OptIfs ==
    { StmtIf(ExprBinary(ExprIntegerLiteral(3), "GreaterThan", ExprIntegerLiteral(1)),
             <<StmtPrint(ExprIntegerLiteral(1))>>,
             Some(<<StmtPrint(ExprIntegerLiteral(2))>>)),
      StmtIf(ExprBinary(ExprIntegerLiteral(0), "GreaterThan", ExprIntegerLiteral(1)),
             <<StmtVarDeclaration("a", ExprIntegerLiteral(0))>>, None),
      StmtIf(ExprBinary(ExprIdentifier("a"), "LessThan", ExprIntegerLiteral(1)),
             <<StmtPrint(ExprAssign("a", ExprIntegerLiteral(1)))>>, None),
      StmtIf(ExprBinary(ExprIdentifier("b"), "GreaterThan", ExprIntegerLiteral(0)),
             <<StmtVarDeclaration("b", ExprBinary(ExprIdentifier("a"), "Sub",
                                                  ExprIdentifier("a")))>>,
             Some(<<StmtPrint(ExprBinary(ExprIdentifier("b"), "Add",
                                         ExprIntegerLiteral(0)))>>)) }
OptStmtPool == OptDecls \cup OptPrints \cup OptIfs

\* int v1 = q; int v2 = v1; ... int vn = v(n-1);  -- q is not a constant, so
\* nothing is propagated and each iteration removes the last declaration only
ChainName(i) == "v" \o ToString(i)
LongChain(n) ==
    [i \in 1..n |->
        StmtVarDeclaration(ChainName(i),
                           IF i = 1 THEN ExprIdentifier("q")
                           ELSE ExprIdentifier(ChainName(i - 1)))]
LongChainLens == {MaxIterations + 1, MaxIterations + 2}

OptPrograms ==
    SeqsUpTo(OptStmtPool, MaxProgLen) \cup {LongChain(n) : n \in LongChainLens}

(***************************************************************************)
(* SEMANTIC ANALYZER  (src/src/semantic/semantic.rs)                       *)
(*                                                                         *)
(* Type is one of the strings below, which are also its Debug renderings.  *)
(* `self` is the analyzer, [scopes, errors]; a method that takes &mut self  *)
(* returns the analyzer it leaves, beside its Type when it has one.        *)
(***************************************************************************)
Type == {"Int", "String", "Bool", "Unknown"}

UndeclaredVariable(name) == [e |-> "UndeclaredVariable", name |-> name]
Redeclaration(name) == [e |-> "Redeclaration", name |-> name]
TypeMismatch(expected, found, context) ==
    [e |-> "TypeMismatch", expected |-> expected, found |-> found,
     context |-> context]

SemanticAnalyzer(scopes, errors) == [scopes |-> scopes, errors |-> errors]

\* SemanticAnalyzer::new()
NewSemanticAnalyzer == SemanticAnalyzer(<<EmptyMap>>, <<>>)

enter_scope(self) == [self EXCEPT !.scopes = Append(@, EmptyMap)]

\* an exit_scope that pops nothing
exit_scope_never(self) == self

exit_scope(self) ==
    IF Len(self.scopes) > 1
    THEN [self EXCEPT !.scopes = SubSeq(@, 1, Len(@) - 1)]
    ELSE self

\* innermost to outermost
lookup_variable(self, name) ==
    LET holding == {i \in DOMAIN self.scopes : name \in DOMAIN self.scopes[i]}
    IN  IF holding = {} THEN None
        ELSE Some(self.scopes[CHOOSE i \in holding : \A j \in holding : j <= i][name])

add_error(self, err) == [self EXCEPT !.errors = Append(@, err)]

\* a Type, and the analyzer after the expression that has it was checked
Typed(self, type) == [self |-> self, type |-> type]

check_identifier(self, name) ==
    LET t == lookup_variable(self, name)
    IN  IF t.some THEN Typed(self, t.v)
        ELSE Typed(add_error(self, UndeclaredVariable(name)), "Unknown")

\* check_binary_expression, from `match op` on
check_binary_types(self, left_type, op, right_type) ==
    CASE op = "Add" ->
            IF left_type = "Int" /\ right_type = "Int" THEN Typed(self, "Int")
            ELSE IF left_type = "String" /\ right_type = "String"
            THEN Typed(self, "String")
            ELSE Typed(add_error(self, TypeMismatch(left_type, right_type,
                     "addition requires both sides to have the same type (Int+Int or String+String)")),
                       "Unknown")
      [] op = "Sub" ->
            IF left_type = "Int" /\ right_type = "Int" THEN Typed(self, "Int")
            ELSE Typed(add_error(self, TypeMismatch("Int",
                     IF left_type # "Int" THEN left_type ELSE right_type,
                     "subtraction requires both operands to be Int")),
                       "Unknown")
      [] op \in {"GreaterThan", "LessThan"} ->
            IF left_type = "Int" /\ right_type = "Int" THEN Typed(self, "Bool")
            ELSE Typed(add_error(self, TypeMismatch("Int",
                     IF left_type # "Int" THEN left_type ELSE right_type,
                     "comparison requires both sides to be Int")),
                       "Unknown")

\* check_binary_expression, after both operands were checked
check_binary_both(left_type, op, right) ==
    check_binary_types(right.self, left_type, op, right.type)

\* check_assignment, after the value was checked
check_assigned_value(name, var_type, value) ==
    Typed(IF value.type # "Unknown" /\ var_type # value.type
          THEN add_error(value.self, TypeMismatch(var_type, value.type,
                   "cannot assign value of type " \o value.type
                       \o " to variable '" \o name \o "' of type " \o var_type))
          ELSE value.self,
          value.type)

RECURSIVE check_expression(_, _)
RECURSIVE check_binary_expression(_, _, _, _)
RECURSIVE check_binary_right(_, _, _)
RECURSIVE check_assignment(_, _, _)

check_expression(self, expr) ==
    CASE expr.k = "IntegerLiteral" -> Typed(self, "Int")
      [] expr.k = "StringLiteral" -> Typed(self, "String")
      [] expr.k = "Identifier" -> check_identifier(self, expr.name)
      [] expr.k = "Binary" ->
            check_binary_expression(self, expr.left, expr.op, expr.right)
      [] expr.k = "Assign" -> check_assignment(self, expr.name, expr.value)

check_binary_expression(self, left, op, right) ==
    check_binary_right(check_expression(self, left), op, right)

\* check_binary_expression, after the left operand was checked
check_binary_right(left, op, right) ==
    check_binary_both(left.type, op, check_expression(left.self, right))

check_assignment(self, name, value) ==
    LET var_type == lookup_variable(self, name)
    IN  IF ~var_type.some
        THEN Typed(add_error(self, UndeclaredVariable(name)), "Unknown")
        ELSE check_assigned_value(name, var_type.v, check_expression(self, value))

\* a declaration that binds the name only when the initializer is an Int
declare_only_int(name, value) ==
    IF value.type # "Unknown" /\ value.type # "Int"
    THEN add_error(value.self, TypeMismatch("Int", value.type,
             "initializer for '" \o name \o "' must be Int"))
    ELSE [value.self EXCEPT
             !.scopes[Len(value.self.scopes)] = MapInsert(@, name, "Int")]

\* check_var_declaration, after the initializer was checked
declare_checked(name, value) ==
    LET declared_type == "Int"
        checked ==
            IF value.type # "Unknown" /\ value.type # declared_type
            THEN add_error(value.self, TypeMismatch(declared_type, value.type,
                     "initializer for '" \o name \o "' must be " \o declared_type))
            ELSE value.self
    IN  [checked EXCEPT
            !.scopes[Len(checked.scopes)] = MapInsert(@, name, declared_type)]

\* a declaration that takes a name declared in any scope for a redeclaration
check_var_declaration_any_scope(self, name, value) ==
    IF lookup_variable(self, name).some
    THEN add_error(self, Redeclaration(name))
    ELSE declare_checked(name, check_expression(self, value))

check_var_declaration(self, name, value) ==
    IF name \in DOMAIN self.scopes[Len(self.scopes)]
    THEN add_error(self, Redeclaration(name))
    ELSE declare_checked(name, check_expression(self, value))

\* check_if_statement: the analyzer after the condition of type cond.type
check_condition(cond) ==
    IF cond.type # "Bool" /\ cond.type # "Unknown"
    THEN add_error(cond.self, TypeMismatch("Bool", cond.type,
                                           "if condition must be boolean"))
    ELSE cond.self

RECURSIVE check_statements(_, _)
RECURSIVE check_statement(_, _)
RECURSIVE check_if_statement(_, _, _, _)
RECURSIVE check_block(_, _)
RECURSIVE check_block_statement(_, _)
RECURSIVE check_else_block(_, _)

\* `for stmt in ... { self.check_statement(stmt); }`
check_statements(self, statements) ==
    IF statements = <<>> THEN self
    ELSE check_statements(check_statement(self, Head(statements)), Tail(statements))

check_statement(self, stmt) ==
    CASE stmt.k = "VarDeclaration" ->
            check_var_declaration(self, stmt.name, stmt.value)
      [] stmt.k = "Print" -> check_expression(self, stmt.expr).self
      [] stmt.k = "If" ->
            check_if_statement(self, stmt.condition, stmt.then_block,
                               stmt.else_block)
      [] stmt.k = "Block" -> check_block_statement(self, stmt.stmts)

\* check_if_statement: a block, checked in a scope of its own
check_block(self, block) ==
    exit_scope(check_statements(enter_scope(self), block))

\* Stmt::Block, which the parser makes and this check_statement has no arm
\* for: "each block introduces and then discards a scope"
check_block_statement(self, stmts) ==
    exit_scope(check_statements(enter_scope(self), stmts))

\* check_if_statement: the else block, if present
check_else_block(self, else_block) ==
    IF else_block.some THEN check_block(self, else_block.v) ELSE self

check_if_statement(self, condition, then_block, else_block) ==
    check_else_block(
        check_block(check_condition(check_expression(self, condition)), then_block),
        else_block)

\* what analyze returns for the errors collected
analyze_result(errors) ==
    IF errors = <<>> THEN [ok |-> TRUE] ELSE [ok |-> FALSE, errors |-> errors]

(***************************************************************************)
(* Inputs of the analyzer: programs of at most MaxProgLen top-level        *)
(* statements drawn from SemStmtPool.                                      *)
(***************************************************************************)
SemDecls ==
    { StmtVarDeclaration("a", ExprIntegerLiteral(1)),
      StmtVarDeclaration("a", ExprStringLiteral("hi")),
      StmtVarDeclaration("a", ExprIdentifier("b")),
      StmtVarDeclaration("b", ExprIdentifier("a")),
      StmtVarDeclaration("b", ExprAssign("a", ExprStringLiteral("hi"))) }
SemPrints ==
    { StmtPrint(ExprIdentifier("a")),
      StmtPrint(ExprIdentifier("b")),
      StmtPrint(ExprAssign("b", ExprIdentifier("a"))),
      StmtPrint(ExprBinary(ExprIdentifier("a"), "Add", ExprStringLiteral("hi"))) }
SemIfs ==
    { StmtIf(ExprBinary(ExprIdentifier("a"), "LessThan", ExprIntegerLiteral(1)),
             <<StmtVarDeclaration("b", ExprIntegerLiteral(1))>>, None),
      StmtIf(ExprBinary(ExprIntegerLiteral(0), "LessThan", ExprIntegerLiteral(1)),
             <<StmtVarDeclaration("a", ExprStringLiteral("hi")),
               StmtPrint(ExprIdentifier("a"))>>,
             Some(<<StmtVarDeclaration("b", ExprIntegerLiteral(2))>>)),
      StmtIf(ExprIntegerLiteral(1), <<StmtPrint(ExprIdentifier("b"))>>, None) }
SemStmtPool == SemDecls \cup SemPrints \cup SemIfs
SemPrograms == SeqsUpTo(SemStmtPool, MaxProgLen)

(***************************************************************************)
(* CODE GENERATOR  (src/src/codegen/arm64.rs)                              *)
(*                                                                         *)
(* What the emitted code does when it runs.  A value is what a register or *)
(* a stack slot holds: an integer, the address of an interned string, or   *)
(* whatever the stack held before (a slot read before any store to it).    *)
(* The machine `m` is [env, out, ub]: the slots by variable name (one slot *)
(* per name, alloc_var), the values printed so far, and whether a value    *)
(* that is no integer was computed with, branched on or printed by %d.     *)
(***************************************************************************)
IntValue(n) == [t |-> "Int", n |-> n]
AddressValue(s) == [t |-> "Address", s |-> s]
StackGarbage == [t |-> "Uninit"]

Printed(value) == [fmt |-> "fmt_int", n |-> value.n]
PrintedStr(s) == [fmt |-> "fmt_str", s |-> s]

Machine(env, out, ub) == [env |-> env, out |-> out, ub |-> ub]
NewMachine == Machine(EmptyMap, <<>>, FALSE)

\* a register holding `value`, on the machine as the code so far left it
Reg(m, value) == [m |-> m, value |-> value]

\* add, sub, cmp + cset on the registers holding l and r
run_binary(m, l, op, r) ==
    IF l.t # "Int" \/ r.t # "Int" THEN Reg([m EXCEPT !.ub = TRUE], StackGarbage)
    ELSE CASE op = "Add" -> Reg(m, IntValue(l.n + r.n))
           [] op = "Sub" -> Reg(m, IntValue(l.n - r.n))
           [] op = "GreaterThan" -> Reg(m, IntValue(IF l.n > r.n THEN 1 ELSE 0))
           [] op = "LessThan" -> Reg(m, IntValue(IF l.n < r.n THEN 1 ELSE 0))

\* str r, [sp, #off] for the slot of `name`
run_store(name, r) ==
    Reg([r.m EXCEPT !.env = MapInsert(@, name, r.value)], r.value)

RECURSIVE run_expr(_, _)
RECURSIVE run_binary_right(_, _, _)

\* the code gen_expr emits for expr, run on m
run_expr(m, expr) ==
    CASE expr.k = "IntegerLiteral" -> Reg(m, IntValue(expr.n))
      [] expr.k = "StringLiteral" -> Reg(m, AddressValue(expr.s))
      [] expr.k = "Identifier" ->
            Reg(m, IF expr.name \in DOMAIN m.env THEN m.env[expr.name]
                   ELSE StackGarbage)
      [] expr.k = "Assign" -> run_store(expr.name, run_expr(m, expr.value))
      [] expr.k = "Binary" ->
            run_binary_right(run_expr(m, expr.left), expr.op, expr.right)

\* gen_expr, Binary arm, after the code of the left operand
run_binary_right(l, op, right) ==
    LET r == run_expr(l.m, right)
    IN  run_binary(r.m, l.value, op, r.value)

\* mov x1, r; bl printf with fmt_int
run_print(r) ==
    IF r.value.t = "Int"
    THEN [r.m EXCEPT !.out = Append(@, Printed(r.value))]
    ELSE [r.m EXCEPT !.ub = TRUE]

RECURSIVE run_stmts(_, _)
RECURSIVE run_stmt(_, _)
RECURSIVE run_if(_, _, _)

\* the code of a statement list, run on m
run_stmts(m, stmts) ==
    IF stmts = <<>> THEN m
    ELSE run_stmts(run_stmt(m, Head(stmts)), Tail(stmts))

\* the code gen_stmt emits for stmt, run on m
run_stmt(m, stmt) ==
    CASE stmt.k = "VarDeclaration" ->
            run_store(stmt.name, run_expr(m, stmt.value)).m
      [] stmt.k = "Print" ->
            IF stmt.expr.k = "StringLiteral"
            THEN [m EXCEPT !.out = Append(@, PrintedStr(stmt.expr.s))]
            ELSE run_print(run_expr(m, stmt.expr))
      [] stmt.k = "If" ->
            run_if(run_expr(m, stmt.condition), stmt.then_block, stmt.else_block)

\* cmp r, #0; beq else: the then block unless r is zero, the else block
\* (if any) when it is
run_if(r, then_block, else_block) ==
    IF r.value.t # "Int" THEN [r.m EXCEPT !.ub = TRUE]
    ELSE IF r.value.n # 0 THEN run_stmts(r.m, then_block)
    ELSE IF else_block.some THEN run_stmts(r.m, else_block.v)
    ELSE r.m

\* what the program prints, and whether that is defined
Run(stmts) ==
    LET m == run_stmts(NewMachine, stmts) IN [out |-> m.out, ub |-> m.ub]

(***************************************************************************)
(* CODE GENERATOR  (src/src/codegen/arm64.rs): generation                  *)
(*                                                                         *)
(* `self` is the Codegen, [data_strings, vars, next_offset, instrs,        *)
(* label_id, temps]; instrs holds the lines of text as emitted.  The calls *)
(* of gen_stmt and gen_expr in progress are kept as a stack of frames,     *)
(* the next thing to do first: a statement or an expression to generate,   *)
(* or the rest of a call whose gen_expr has returned.  `held` lists the    *)
(* registers gen_expr has returned to calls that have not freed them yet   *)
(* (their locals r and l), the latest first.                               *)
(***************************************************************************)
Codegen(data_strings, vars, next_offset, instrs, label_id, temps) ==
    [data_strings |-> data_strings, vars |-> vars, next_offset |-> next_offset,
     instrs |-> instrs, label_id |-> label_id, temps |-> temps]

\* Codegen::new()
NewCodegen ==
    Codegen(<<>>, EmptyMap, 0, <<>>, 0,
            <<"x9", "x10", "x11", "x12", "x13", "x14", "x15">>)

\* the scratch registers, x9 to x15
Registers == {NewCodegen.temps[i] : i \in DOMAIN NewCodegen.temps}

emit(self, s) == [self EXCEPT !.instrs = Append(@, s)]

RECURSIVE emit_all(_, _)
emit_all(self, lines) ==
    IF lines = <<>> THEN self ELSE emit_all(emit(self, Head(lines)), Tail(lines))

\* a label that leaves the counter as it is
label_same_id(self, base) ==
    [self |-> self, l |-> base \o "_" \o ToString(self.label_id)]

\* the label made, and the generator after it
label(self, base) ==
    [self |-> [self EXCEPT !.label_id = @ + 1],
     l |-> base \o "_" \o ToString(self.label_id)]

intern(self, s) ==
    [self |-> [self EXCEPT !.data_strings =
                   Append(@, <<".LC" \o ToString(Len(self.data_strings)), s>>)],
     lbl |-> ".LC" \o ToString(Len(self.data_strings))]

\* an alloc_var that gives the name a new slot at every call
alloc_var_again(self, name) ==
    [self |-> [self EXCEPT !.vars = MapInsert(@, name, self.next_offset),
                           !.next_offset = @ + 8],
     off |-> self.next_offset]

\* entry(name).or_insert_with(..): the slot of the name, a new one if it has none
alloc_var(self, name) ==
    IF name \in DOMAIN self.vars
    THEN [self |-> self, off |-> self.vars[name]]
    ELSE [self |-> [self EXCEPT !.vars = MapInsert(@, name, self.next_offset),
                                !.next_offset = @ + 8],
          off |-> self.next_offset]

\* an alloc_tmp that leaves the register it hands out in the pool
alloc_tmp_keep(self) ==
    IF self.temps = <<>> THEN None
    ELSE Some([self |-> self, r |-> self.temps[Len(self.temps)]])

\* temps.pop(): the last register of the pool and the generator without it,
\* None when the pool is empty (where expect("out of registers") panics)
alloc_tmp(self) ==
    IF self.temps = <<>> THEN None
    ELSE Some([self |-> [self EXCEPT !.temps = SubSeq(@, 1, Len(@) - 1)],
               r |-> self.temps[Len(self.temps)]])

free_tmp(self, r) == [self EXCEPT !.temps = Append(@, r)]

emit_prologue(self) ==
    emit_all(self, <<"main:", "\tstp x29, x30, [sp, #-16]!", "\tmov x29, sp",
                     "\tsub sp, sp, #512">>)

emit_epilogue(self) ==
    emit_all(self, <<"\tadd sp, sp, #512", "\tldp x29, x30, [sp], #16",
                     "\tmov x0, #0", "\tret">>)

\* the frames of `for s in stmts { self.gen_stmt(s); }`
StmtFrames(stmts) == [i \in DOMAIN stmts |-> [t |-> "gen_stmt", stmt |-> stmts[i]]]
ExprFrame(expr) == [t |-> "gen_expr", expr |-> expr]

\* the generation in progress, and the one that has panicked
Generating(self, frames, held) ==
    [self |-> self, frames |-> frames, held |-> held, panic |-> FALSE]
Panicked(self, frames, held) ==
    [self |-> self, frames |-> frames, held |-> held, panic |-> TRUE]

\* gen_expr of a literal or an identifier: alloc_tmp, then the lines emitted
\* with the register (lines[r] for the register r), which is returned
gen_leaf(self, frames, held, lines) ==
    IF alloc_tmp(self) = None THEN Panicked(self, frames, held)
    ELSE Generating(emit_all(alloc_tmp(self).v.self, lines[alloc_tmp(self).v.r]),
                    frames, <<alloc_tmp(self).v.r>> \o held)

MovImmediate(r, n) == <<"\tmov " \o r \o ", #" \o ToString(n)>>
LoadAddress(r, lbl) ==
    <<"\tadrp " \o r \o ", " \o lbl,
      "\tadd  " \o r \o ", " \o r \o ", :lo12:" \o lbl>>
LoadSlot(r, off) == <<"\tldr " \o r \o ", [sp, #" \o ToString(off) \o "]">>
StoreSlot(r, off) == "\tstr " \o r \o ", [sp, #" \o ToString(off) \o "]"

\* gen_expr (lines 179-240), up to its first call of gen_expr
gen_expr(self, frames, held, expr) ==
    CASE expr.k = "IntegerLiteral" ->
            gen_leaf(self, frames, held,
                     [r \in Registers |-> MovImmediate(r, expr.n)])
      [] expr.k = "StringLiteral" ->
            gen_leaf(intern(self, expr.s).self, frames, held,
                     [r \in Registers |-> LoadAddress(r, intern(self, expr.s).lbl)])
      [] expr.k = "BooleanLiteral" ->
            gen_leaf(self, frames, held,
                     [r \in Registers |-> MovImmediate(r, IF expr.b THEN 1 ELSE 0)])
      [] expr.k = "Identifier" ->
            gen_leaf(self, frames, held,
                     [r \in Registers |->
                         LoadSlot(r, IF expr.name \in DOMAIN self.vars
                                     THEN self.vars[expr.name] ELSE 0)])
      [] expr.k = "Assign" ->
            Generating(self,
                       <<ExprFrame(expr.value),
                         [t |-> "assign_store", name |-> expr.name]>> \o frames,
                       held)
      [] expr.k = "Binary" ->
            Generating(self,
                       <<ExprFrame(expr.left), ExprFrame(expr.right),
                         [t |-> "binary_emit", op |-> expr.op]>> \o frames,
                       held)

\* Assign, once gen_expr(value) has returned r (lines 214-216)
assign_store(self, frames, held, name) ==
    Generating(emit(alloc_var(self, name).self,
                    StoreSlot(Head(held), alloc_var(self, name).off)),
               frames, held)

BinaryLines(op, l, r) ==
    CASE op = "Add" -> <<"\tadd " \o l \o ", " \o l \o ", " \o r>>
      [] op = "Sub" -> <<"\tsub " \o l \o ", " \o l \o ", " \o r>>
      [] op = "GreaterThan" ->
            <<"\tcmp " \o l \o ", " \o r, "\tcset " \o l \o ", gt">>
      [] op = "LessThan" ->
            <<"\tcmp " \o l \o ", " \o r, "\tcset " \o l \o ", lt">>

\* Binary, once both operands are in l and r (lines 223-237)
binary_emit(self, frames, held, op) ==
    Generating(free_tmp(emit_all(self, BinaryLines(op, held[2], held[1])), held[1]),
               frames, Tail(held))

PrintStringLines(lbl) ==
    <<"\tadrp x0, fmt_str", "\tadd  x0, x0, :lo12:fmt_str",
      "\tadrp x1, " \o lbl, "\tadd  x1, x1, :lo12:" \o lbl, "\tbl printf">>

\* a print that takes the register for the address of a string
PrintIntLines_as_string(r) ==
    <<"\tadrp x0, fmt_str", "\tadd  x0, x0, :lo12:fmt_str",
      "\tmov x1, " \o r, "\tbl printf">>

PrintIntLines(r) ==
    <<"\tadrp x0, fmt_int", "\tadd  x0, x0, :lo12:fmt_int",
      "\tmov x1, " \o r, "\tbl printf">>

\* gen_stmt (lines 111-175), up to its first call of gen_stmt or gen_expr
gen_stmt(self, frames, held, stmt) ==
    CASE stmt.k = "Block" ->
            Generating(self, StmtFrames(stmt.stmts) \o frames, held)
      [] stmt.k = "VarDeclaration" ->
            Generating(alloc_var(self, stmt.name).self,
                       <<ExprFrame(stmt.value),
                         [t |-> "declaration_store",
                          off |-> alloc_var(self, stmt.name).off]>> \o frames,
                       held)
      [] stmt.k = "Print" /\ stmt.expr.k = "StringLiteral" ->
            Generating(emit_all(intern(self, stmt.expr.s).self,
                                PrintStringLines(intern(self, stmt.expr.s).lbl)),
                       frames, held)
      [] stmt.k = "Print" /\ stmt.expr.k # "StringLiteral" ->
            Generating(self, <<ExprFrame(stmt.expr), [t |-> "print_int"]>> \o frames,
                       held)
      [] stmt.k = "If" ->
            Generating(self,
                       <<ExprFrame(stmt.condition),
                         [t |-> "if_then", stmt |-> stmt]>> \o frames,
                       held)
      [] stmt.k = "ExprStmt" ->
            Generating(self, <<ExprFrame(stmt.expr), [t |-> "expr_free"]>> \o frames,
                       held)

\* VarDeclaration, once gen_expr(value) has returned r (lines 122-123)
declaration_store(self, frames, held, off) ==
    Generating(free_tmp(emit(self, StoreSlot(Head(held), off)), Head(held)),
               frames, Tail(held))

\* Print, once gen_expr(expr) has returned r (lines 137-141)
print_int(self, frames, held) ==
    Generating(free_tmp(emit_all(self, PrintIntLines(Head(held))), Head(held)),
               frames, Tail(held))

\* If, once gen_expr(condition) has returned r: the labels and the branch
\* (lines 147-151), then the then block; r stays held
if_labelled(else_l_made, end_l_made, frames, held, stmt) ==
    Generating(emit_all(end_l_made.self,
                        <<"\tcmp " \o Head(held) \o ", #0",
                          "\tbeq " \o else_l_made.l>>),
               StmtFrames(stmt.then_block)
                   \o <<[t |-> "if_else", else_l |-> else_l_made.l,
                         end_l |-> end_l_made.l, stmt |-> stmt]>>
                   \o frames,
               held)

if_then(self, frames, held, stmt) ==
    if_labelled(label(self, "else"), label(label(self, "else").self, "endif"),
                frames, held, stmt)

\* If, after the then block (lines 157-164)
if_else(self, frames, held, frame) ==
    Generating(emit_all(self, <<"\tb " \o frame.end_l, frame.else_l \o ":">>),
               (IF frame.stmt.else_block.some
                THEN StmtFrames(frame.stmt.else_block.v) ELSE <<>>)
                   \o <<[t |-> "if_end", end_l |-> frame.end_l]>> \o frames,
               held)

\* If, after the else block (lines 166-167)
if_end(self, frames, held, end_l) ==
    Generating(free_tmp(emit(self, end_l \o ":"), Head(held)), frames, Tail(held))

\* ExprStmt, once gen_expr(expr) has returned r (line 172)
expr_free(self, frames, held) ==
    Generating(free_tmp(self, Head(held)), frames, Tail(held))

\* the first frame is run
gen_step(self, frames, held) ==
    LET frame == Head(frames)
        rest == Tail(frames)
    IN  CASE frame.t = "gen_stmt" -> gen_stmt(self, rest, held, frame.stmt)
          [] frame.t = "gen_expr" -> gen_expr(self, rest, held, frame.expr)
          [] frame.t = "assign_store" -> assign_store(self, rest, held, frame.name)
          [] frame.t = "binary_emit" -> binary_emit(self, rest, held, frame.op)
          [] frame.t = "declaration_store" ->
                declaration_store(self, rest, held, frame.off)
          [] frame.t = "print_int" -> print_int(self, rest, held)
          [] frame.t = "if_then" -> if_then(self, rest, held, frame.stmt)
          [] frame.t = "if_else" -> if_else(self, rest, held, frame)
          [] frame.t = "if_end" -> if_end(self, rest, held, frame.end_l)
          [] frame.t = "expr_free" -> expr_free(self, rest, held)

\* the text generate returns (lines 36-56), line by line
DataLine(entry) == entry[1] \o ": .asciz \"" \o entry[2] \o "\""

assembly(self) ==
    <<"\t.data", "fmt_int: .asciz \"%d\\n\"", "fmt_str: .asciz \"%s\\n\"">>
        \o [i \in DOMAIN self.data_strings |-> DataLine(self.data_strings[i])]
        \o <<"", "\t.text", "\t.global main">>
        \o self.instrs

(***************************************************************************)
(* Inputs of the code generator: programs of at most MaxGenLen top-level   *)
(* statements drawn from GenStmtPool.  RightNested(n) is                   *)
(* a + (a + (... + 1)) of n operands, whose evaluation holds n registers   *)
(* at once; LeftNested(n) is ((1 + a) + ...) + a, which holds two.         *)
(***************************************************************************)
MaxGenLen == 2

RECURSIVE RightNested(_)
RightNested(n) ==
    IF n <= 1 THEN ExprIntegerLiteral(1)
    ELSE ExprBinary(ExprIdentifier("a"), "Add", RightNested(n - 1))

RECURSIVE LeftNested(_)
LeftNested(n) ==
    IF n <= 1 THEN ExprIntegerLiteral(1)
    ELSE ExprBinary(LeftNested(n - 1), "Sub", ExprIdentifier("a"))

PoolSize == Len(NewCodegen.temps)

\* the bytes the prologue reserves (sub sp, sp, #512) and those of a slot
\* (next_offset += 8)
FrameSize == 512
SlotSize == 8

\* int v1 = 1; ... int v<n> = 1;
ManyDeclarations(n) ==
    [i \in 1..n |-> StmtVarDeclaration("v" \o ToString(i), ExprIntegerLiteral(1))]

GenStmtPool ==
    { StmtVarDeclaration("a", ExprIntegerLiteral(1)),
      StmtVarDeclaration("c", ExprAssign("b", ExprIntegerLiteral(2))),
      StmtPrint(ExprStringLiteral("hi")),
      StmtPrint(RightNested(PoolSize)),
      StmtPrint(RightNested(PoolSize + 1)),
      StmtExprStmt(ExprAssign("b", LeftNested(PoolSize + 1))),
      StmtIf(ExprBinary(ExprIdentifier("a"), "LessThan", ExprIntegerLiteral(1)),
             <<StmtPrint(RightNested(PoolSize - 1))>>, None),
      StmtIf(ExprBooleanLiteral(TRUE),
             <<StmtVarDeclaration("b", ExprStringLiteral("hi"))>>,
             Some(<<StmtPrint(RightNested(PoolSize))>>)),
      StmtBlock(<<StmtIf(ExprIdentifier("a"),
                         <<StmtIf(ExprIdentifier("b"),
                                  <<StmtPrint(ExprIdentifier("a"))>>, None)>>,
                         Some(<<StmtPrint(ExprStringLiteral("hi"))>>))>>),
      StmtBlock(<<StmtVarDeclaration("s", ExprStringLiteral("hi")),
                  StmtPrint(ExprIdentifier("s")),
                  StmtPrint(ExprBinary(ExprIdentifier("s"), "Add",
                                       ExprStringLiteral("hi")))>>),
      StmtBlock(ManyDeclarations(FrameSize \div SlotSize + 1)),
      StmtIf(ExprBinary(ExprIdentifier("a"), "LessThan", ExprIntegerLiteral(1)),
             <<StmtVarDeclaration("a", ExprIntegerLiteral(2))>>, None) }

GenPrograms == SeqsUpTo(GenStmtPool, MaxGenLen)

(***************************************************************************)
(* LEXER  (src/src/lexing/lexer.rs, src/src/lexing/token.rs)               *)
(*                                                                         *)
(* The program text is a sequence of one-character strings; an offset o    *)
(* (from 0, as in the source) names the character program[o + 1].  A match *)
(* is [token_type, start, end], end exclusive.                             *)
(***************************************************************************)
\* the token types of lex_program, in the order of its list
TokenTypes ==
    << "Print", "If", "Else", "Int", "IntegerLiteral", "StringLiteral",
       "Plus", "Minus", "Assign", "GreaterThan", "LessThan",
       "LeftParen", "RightParen", "LeftBrace", "RightBrace", "SemiColon",
       "Identifier" >>

\* the character classes of the patterns: \d, \s, [a-zA-Z_], [a-zA-Z0-9_]
Digit == {"0", "1", "2", "3", "4", "5", "6", "7", "8", "9"}
Whitespace == {" ", "\t", "\n", "\r", "\f"}
Letter ==
    {"a", "b", "c", "d", "e", "f", "g", "h", "i", "j", "k", "l", "m", "n",
     "o", "p", "q", "r", "s", "t", "u", "v", "w", "x", "y", "z",
     "A", "B", "C", "D", "E", "F", "G", "H", "I", "J", "K", "L", "M", "N",
     "O", "P", "Q", "R", "S", "T", "U", "V", "W", "X", "Y", "Z", "_"}
IdentifierChar == Letter \cup Digit

\* no match of the pattern starts at the offset
NoMatch == -1

\* where the match of a literal pattern that starts at offset p ends
literal_end(program, p, word) ==
    IF /\ p + Len(word) <= Len(program)
       /\ \A i \in DOMAIN word : program[p + i] = word[i]
    THEN p + Len(word)
    ELSE NoMatch

\* where the longest run of characters of the class from offset p ends
run_end(program, p, class) ==
    CHOOSE e \in p..Len(program) :
        /\ \A o \in p..(e - 1) : program[o + 1] \in class
        /\ e < Len(program) => program[e + 1] \notin class

\* where a one-or-more repetition of the class that starts at p ends
repeat_end(program, p, class) ==
    IF p < Len(program) /\ run_end(program, p, class) > p
    THEN run_end(program, p, class)
    ELSE NoMatch

\* ".*" greedy: from the quote at p to the last quote that no newline
\* parts from it
string_end(program, p) ==
    LET closing == {q \in (p + 1)..(Len(program) - 1) :
                        /\ program[q + 1] = "\""
                        /\ \A o \in (p + 1)..(q - 1) : program[o + 1] # "\n"}
    IN  IF p < Len(program) /\ program[p + 1] = "\"" /\ closing # {}
        THEN (CHOOSE q \in closing : \A c \in closing : c <= q) + 1
        ELSE NoMatch

\* Token::get_token_regex: where the match of the token type's pattern that
\* starts at offset p ends, NoMatch if there is none
get_token_regex(token_type, program, p) ==
    CASE token_type = "Print" -> literal_end(program, p, <<"p", "r", "i", "n", "t">>)
      [] token_type = "If" -> literal_end(program, p, <<"i", "f">>)
      [] token_type = "Else" -> literal_end(program, p, <<"e", "l", "s", "e">>)
      [] token_type = "Int" ->
            IF literal_end(program, p, <<"i", "n", "t">>) = NoMatch THEN NoMatch
            ELSE repeat_end(program, p + 3, Whitespace)
      [] token_type = "IntegerLiteral" -> repeat_end(program, p, Digit)
      [] token_type = "StringLiteral" -> string_end(program, p)
      [] token_type = "Identifier" ->
            IF p < Len(program) /\ program[p + 1] \in Letter
            THEN run_end(program, p + 1, IdentifierChar)
            ELSE NoMatch
      [] token_type = "Plus" -> literal_end(program, p, <<"+">>)
      [] token_type = "Minus" -> literal_end(program, p, <<"-">>)
      [] token_type = "Assign" -> literal_end(program, p, <<"=">>)
      [] token_type = "SemiColon" -> literal_end(program, p, <<";">>)
      [] token_type = "LeftParen" -> literal_end(program, p, <<"(">>)
      [] token_type = "RightParen" -> literal_end(program, p, <<")">>)
      [] token_type = "LeftBrace" -> literal_end(program, p, <<"{">>)
      [] token_type = "RightBrace" -> literal_end(program, p, <<"}">>)
      [] token_type = "GreaterThan" -> literal_end(program, p, <<">">>)
      [] token_type = "LessThan" -> literal_end(program, p, <<"<">>)

Match(token_type, start, end) ==
    [token_type |-> token_type, start |-> start, end |-> end]

\* the offsets at or after `from` where a match of the pattern starts
match_starts(token_type, program, from) ==
    {p \in from..(Len(program) - 1) :
        get_token_regex(token_type, program, p) # NoMatch}

\* the leftmost of them
leftmost(starts) == CHOOSE p \in starts : \A q \in starts : p <= q

\* regex.find_iter(program): the successive non-overlapping matches of the
\* pattern, each the leftmost one at or after the end of the one before
RECURSIVE find_iter(_, _, _)
RECURSIVE find_iter_at(_, _, _)
find_iter(token_type, program, from) ==
    IF match_starts(token_type, program, from) = {} THEN <<>>
    ELSE find_iter_at(token_type, program,
                      leftmost(match_starts(token_type, program, from)))

find_iter_at(token_type, program, p) ==
    <<Match(token_type, p, get_token_regex(token_type, program, p))>>
        \o find_iter(token_type, program, get_token_regex(token_type, program, p))

\* the loop over the token types (lines 36-43): the matches of the first n
\* types, in the order they are pushed
RECURSIVE collect_matches(_, _)
collect_matches(program, n) ==
    IF n = 0 THEN <<>>
    ELSE collect_matches(program, n - 1) \o find_iter(TokenTypes[n], program, 0)

\* a comparator that looks at the position only
sorts_before_by_start(a, b) == a.start < b.start

\* the comparator of sort_by: does a sort strictly before b
sorts_before(a, b) ==
    \/ a.start < b.start
    \/ a.start = b.start /\ (a.end - a.start) > (b.end - b.start)

\* sort_by is stable: the matches that come before matches[i] in the
\* result are those that sort before it, and of those that sort neither
\* before nor after it the ones that were before it
sorted_before(matches, i) ==
    {j \in DOMAIN matches :
        \/ sorts_before(matches[j], matches[i])
        \/ /\ ~sorts_before(matches[i], matches[j])
           /\ j < i}

sort_by(matches) ==
    [n \in DOMAIN matches |->
        matches[CHOOSE i \in DOMAIN matches :
                    Cardinality(sorted_before(matches, i)) = n - 1]]

\* &program[start..end] as a string
RECURSIVE lexeme_of(_, _, _)
lexeme_of(program, start, end) ==
    IF start >= end THEN ""
    ELSE program[start + 1] \o lexeme_of(program, start + 1, end)

DigitValue(c) ==
    CASE c = "0" -> 0 [] c = "1" -> 1 [] c = "2" -> 2 [] c = "3" -> 3
      [] c = "4" -> 4 [] c = "5" -> 5 [] c = "6" -> 6 [] c = "7" -> 7
      [] c = "8" -> 8 [] c = "9" -> 9

\* lexeme.parse::<i64>() of the digits program[start..end]
RECURSIVE parse_i64(_, _, _)
parse_i64(program, start, end) ==
    IF start >= end THEN 0
    ELSE parse_i64(program, start, end - 1) * 10 + DigitValue(program[end])

\* the token made of an accepted match (lines 60-99)
token_of(program, m) ==
    CASE m.token_type = "IntegerLiteral" ->
            [type |-> "IntegerLiteral", n |-> parse_i64(program, m.start, m.end)]
      [] m.token_type = "StringLiteral" ->
            [type |-> "StringLiteral",
             s |-> lexeme_of(program, m.start + 1, m.end - 1)]
      [] m.token_type = "Identifier" ->
            [type |-> "Identifier", s |-> lexeme_of(program, m.start, m.end)]
      [] OTHER -> [type |-> m.token_type]

\* the last loop of lex_program, [result, last_end, accepted] as it goes
Scan(result, last_end, accepted) ==
    [result |-> result, last_end |-> last_end, accepted |-> accepted]

\* one round of the loop (lines 54-102): the match m is skipped if it
\* starts inside the text already tokenized, and made a token of if not
scan_match(program, scan, m) ==
    IF m.start < scan.last_end THEN scan
    ELSE Scan(Append(scan.result, token_of(program, m)), m.end,
              Append(scan.accepted, m))

(***************************************************************************)
(* Inputs of the lexer: the texts of at most MaxSrcLen characters of       *)
(* LexAlphabet.                                                            *)
(***************************************************************************)
MaxSrcLen == 4
LexAlphabet == {"i", "f", "n", "t", "2", " ", "\""}
LexPrograms == SeqsUpTo(LexAlphabet, MaxSrcLen)

(***************************************************************************)
(* PARSER  (src/src/parsing/parser.rs)                                     *)
(*                                                                         *)
(* The parser is its tokens and the cursor pos.  A method returns          *)
(* [ok, pos, v]: Ok with the cursor it leaves and the node it built, or    *)
(* [ok, pos]: ParseError::UnexpectedToken with the cursor as the failing   *)
(* method left it, which `?` hands on to the caller.                       *)
(***************************************************************************)
ParseOk(pos, v) == [ok |-> TRUE, pos |-> pos, v |-> v]
UnexpectedToken(pos) == [ok |-> FALSE, pos |-> pos]

\* self.tokens.get(self.pos)
current_token(tokens, pos) == IF pos < Len(tokens) THEN Some(tokens[pos + 1]) ELSE None

\* self.current() is a token of the type
current_is(tokens, pos, type) ==
    current_token(tokens, pos).some /\ current_token(tokens, pos).v.type = type

\* an expect that steps over the token it rejects
expect_advancing(tokens, r, expected) ==
    IF ~r.ok THEN r
    ELSE IF current_is(tokens, r.pos, expected) THEN [r EXCEPT !.pos = @ + 1]
    ELSE UnexpectedToken(r.pos + 1)

\* expect(expected)?, after the method got as far as r
expect(tokens, r, expected) ==
    IF ~r.ok THEN r
    ELSE IF current_is(tokens, r.pos, expected) THEN [r EXCEPT !.pos = @ + 1]
    ELSE UnexpectedToken(r.pos)

\* `*n as i32` of an i64 (every integer of the model is within i32)
as_i32(n) == n

\* a parse_primary that sets the cursor back to the start when it fails
parse_primary_token_rewinding(tokens, pos) ==
    CASE current_is(tokens, pos, "IntegerLiteral") ->
            ParseOk(pos + 1, ExprIntegerLiteral(as_i32(tokens[pos + 1].n)))
      [] current_is(tokens, pos, "StringLiteral") ->
            ParseOk(pos + 1, ExprStringLiteral(tokens[pos + 1].s))
      [] current_is(tokens, pos, "Identifier") ->
            ParseOk(pos + 1, ExprIdentifier(tokens[pos + 1].s))
      [] current_is(tokens, pos, "Maybe") -> ParseOk(pos + 1, ExprMaybe)
      [] OTHER -> UnexpectedToken(0)

parse_primary_token(tokens, pos) ==
    CASE current_is(tokens, pos, "IntegerLiteral") ->
            ParseOk(pos + 1, ExprIntegerLiteral(as_i32(tokens[pos + 1].n)))
      [] current_is(tokens, pos, "StringLiteral") ->
            ParseOk(pos + 1, ExprStringLiteral(tokens[pos + 1].s))
      [] current_is(tokens, pos, "Identifier") ->
            ParseOk(pos + 1, ExprIdentifier(tokens[pos + 1].s))
      [] current_is(tokens, pos, "Maybe") -> ParseOk(pos + 1, ExprMaybe)
      [] OTHER -> UnexpectedToken(pos)

RECURSIVE parse_expr(_, _)
RECURSIVE parse_comparison_loop(_, _)
RECURSIVE parse_comparison_right(_, _, _, _)
RECURSIVE parse_addition(_, _)
RECURSIVE parse_addition_loop(_, _)
RECURSIVE parse_addition_right(_, _, _, _)
RECURSIVE parse_primary(_, _)

parse_primary(tokens, pos) ==
    IF current_is(tokens, pos, "LeftParen")
    THEN expect(tokens, parse_expr(tokens, pos + 1), "RightParen")
    ELSE parse_primary_token(tokens, pos)

\* a parse_addition whose right operand is the whole rest of the sum
binary_of(left, op, right) ==
    IF ~right.ok THEN right ELSE ParseOk(right.pos, ExprBinary(left, op, right.v))
parse_addition_loop_right(tokens, r) ==
    IF ~r.ok THEN r
    ELSE IF current_is(tokens, r.pos, "Plus")
    THEN binary_of(r.v, "Add", parse_addition(tokens, r.pos + 1))
    ELSE IF current_is(tokens, r.pos, "Minus")
    THEN binary_of(r.v, "Sub", parse_addition(tokens, r.pos + 1))
    ELSE r

\* the loop of parse_addition (lines 175-190), with `left` in r.v
parse_addition_loop(tokens, r) ==
    IF ~r.ok THEN r
    ELSE IF current_is(tokens, r.pos, "Plus")
    THEN parse_addition_right(tokens, r.v, "Add", parse_primary(tokens, r.pos + 1))
    ELSE IF current_is(tokens, r.pos, "Minus")
    THEN parse_addition_right(tokens, r.v, "Sub", parse_primary(tokens, r.pos + 1))
    ELSE r

parse_addition_right(tokens, left, op, right) ==
    IF ~right.ok THEN right
    ELSE parse_addition_loop(tokens,
                             ParseOk(right.pos, ExprBinary(left, op, right.v)))

parse_addition(tokens, pos) ==
    parse_addition_loop(tokens, parse_primary(tokens, pos))

\* the loop of parse_comparison (lines 152-167), with `left` in r.v
parse_comparison_loop(tokens, r) ==
    IF ~r.ok THEN r
    ELSE IF current_is(tokens, r.pos, "GreaterThan")
    THEN parse_comparison_right(tokens, r.v, "GreaterThan",
                                parse_addition(tokens, r.pos + 1))
    ELSE IF current_is(tokens, r.pos, "LessThan")
    THEN parse_comparison_right(tokens, r.v, "LessThan",
                                parse_addition(tokens, r.pos + 1))
    ELSE r

parse_comparison_right(tokens, left, op, right) ==
    IF ~right.ok THEN right
    ELSE parse_comparison_loop(tokens,
                               ParseOk(right.pos, ExprBinary(left, op, right.v)))

parse_comparison(tokens, pos) ==
    parse_comparison_loop(tokens, parse_addition(tokens, pos))

parse_expr(tokens, pos) == parse_comparison(tokens, pos)

\* parse_print, from the expression on (lines 79-82)
parse_print_end(tokens, expr) ==
    IF ~expect(tokens, expect(tokens, expr, "RightParen"), "SemiColon").ok
    THEN expect(tokens, expect(tokens, expr, "RightParen"), "SemiColon")
    ELSE ParseOk(expect(tokens, expect(tokens, expr, "RightParen"), "SemiColon").pos,
                 StmtPrint(expr.v))

parse_print(tokens, pos) ==
    IF current_is(tokens, pos + 1, "LeftParen")
    THEN parse_print_end(tokens, parse_expr(tokens, pos + 2))
    ELSE UnexpectedToken(pos + 1)

\* parse_var_decl, from the initializer on (lines 98-101)
parse_var_decl_end(tokens, name, value) ==
    IF ~expect(tokens, value, "SemiColon").ok
    THEN expect(tokens, value, "SemiColon")
    ELSE ParseOk(expect(tokens, value, "SemiColon").pos,
                 StmtVarDeclaration(name, value.v))

parse_var_decl(tokens, pos) ==
    IF ~current_is(tokens, pos + 1, "Identifier") THEN UnexpectedToken(pos + 1)
    ELSE IF ~current_is(tokens, pos + 2, "Assign") THEN UnexpectedToken(pos + 2)
    ELSE parse_var_decl_end(tokens, tokens[pos + 2].s, parse_expr(tokens, pos + 3))

parse_paywall(tokens, pos) ==
    IF ~current_is(tokens, pos + 1, "LeftParen") THEN UnexpectedToken(pos + 1)
    ELSE IF ~current_is(tokens, pos + 2, "IntegerLiteral")
    THEN UnexpectedToken(pos + 2)
    ELSE IF ~current_is(tokens, pos + 3, "RightParen") THEN UnexpectedToken(pos + 3)
    ELSE IF ~current_is(tokens, pos + 4, "SemiColon") THEN UnexpectedToken(pos + 4)
    ELSE ParseOk(pos + 5, StmtPaywall(tokens[pos + 3].n))

RECURSIVE parse_stmt(_, _)
RECURSIVE parse_block_stmt(_, _)
RECURSIVE parse_block_loop(_, _, _)
RECURSIVE parse_block_next(_, _, _)
RECURSIVE parse_if(_, _)
RECURSIVE parse_if_then(_, _, _)
RECURSIVE parse_if_else(_, _, _)

parse_stmt(tokens, pos) ==
    CASE current_is(tokens, pos, "Print") -> parse_print(tokens, pos)
      [] current_is(tokens, pos, "If") -> parse_if(tokens, pos)
      [] current_is(tokens, pos, "Int") -> parse_var_decl(tokens, pos)
      [] current_is(tokens, pos, "LeftBrace") -> parse_block_stmt(tokens, pos)
      [] current_is(tokens, pos, "Paywall") -> parse_paywall(tokens, pos)
      [] OTHER -> UnexpectedToken(pos)

\* the loop of parse_block_stmt and what follows it (lines 68-73)
parse_block_loop(tokens, pos, stmts) ==
    IF current_is(tokens, pos, "RightBrace")
    THEN ParseOk(pos + 1, StmtBlock(stmts))
    ELSE parse_block_next(tokens, parse_stmt(tokens, pos), stmts)

parse_block_next(tokens, r, stmts) ==
    IF ~r.ok THEN r
    ELSE parse_block_loop(tokens, r.pos, Append(stmts, r.v))

parse_block_stmt(tokens, pos) ==
    IF current_is(tokens, pos, "LeftBrace")
    THEN parse_block_loop(tokens, pos + 1, <<>>)
    ELSE UnexpectedToken(pos)

\* unwrap_block: the statements of a Stmt::Block
unwrap_block(stmt) == stmt.stmts

\* parse_if, from the else block on (lines 119-123)
parse_if_else(condition, then_block, else_block) ==
    IF ~else_block.ok THEN else_block
    ELSE ParseOk(else_block.pos,
                 StmtIf(condition, unwrap_block(then_block),
                        Some(unwrap_block(else_block.v))))

\* parse_if, from the then block on (lines 110-123)
parse_if_then(tokens, condition, then_block) ==
    IF ~then_block.ok THEN then_block
    ELSE IF current_is(tokens, then_block.pos, "Else")
    THEN parse_if_else(condition, then_block.v,
                       parse_block_stmt(tokens, then_block.pos + 1))
    ELSE ParseOk(then_block.pos,
                 StmtIf(condition, unwrap_block(then_block.v), None))

\* parse_if, from the condition on (lines 107-110)
parse_if_condition(tokens, condition) ==
    IF ~expect(tokens, condition, "RightParen").ok
    THEN expect(tokens, condition, "RightParen")
    ELSE parse_if_then(tokens, condition.v,
                       parse_block_stmt(tokens,
                                        expect(tokens, condition, "RightParen").pos))

parse_if(tokens, pos) ==
    IF current_is(tokens, pos + 1, "LeftParen")
    THEN parse_if_condition(tokens, parse_expr(tokens, pos + 2))
    ELSE UnexpectedToken(pos + 1)

\* the loop of parse and its result (lines 44-48)
RECURSIVE parse_loop(_, _, _)
RECURSIVE parse_next(_, _, _)
parse_loop(tokens, pos, stmts) ==
    IF pos < Len(tokens)
    THEN parse_next(tokens, parse_stmt(tokens, pos), stmts)
    ELSE ParseOk(pos, <<StmtBlock(stmts)>>)

parse_next(tokens, r, stmts) ==
    IF ~r.ok THEN r
    ELSE parse_loop(tokens, r.pos, Append(stmts, r.v))

\* Parser::new(tokens).parse()
parse(tokens) == parse_loop(tokens, 0, <<>>)

(***************************************************************************)
(* Inputs of the parser: the token sequences of ParserTexts and what at    *)
(* most MaxEdits edits make of them: a token replaced by one of            *)
(* EditTokens, a token removed, or the sequence cut short.                 *)
(***************************************************************************)
Tok(type) == [type |-> type]
TokIdentifier(s) == [type |-> "Identifier", s |-> s]
TokIntegerLiteral(n) == [type |-> "IntegerLiteral", n |-> n]
TokStringLiteral(s) == [type |-> "StringLiteral", s |-> s]

\* int x = 1 + 2; print(x);
TokensDeclPrint ==
    <<Tok("Int"), TokIdentifier("x"), Tok("Assign"), TokIntegerLiteral(1),
      Tok("Plus"), TokIntegerLiteral(2), Tok("SemiColon"),
      Tok("Print"), Tok("LeftParen"), TokIdentifier("x"), Tok("RightParen"),
      Tok("SemiColon")>>

\* print(a - b - c);
TokensSubSub ==
    <<Tok("Print"), Tok("LeftParen"), TokIdentifier("a"), Tok("Minus"),
      TokIdentifier("b"), Tok("Minus"), TokIdentifier("c"), Tok("RightParen"),
      Tok("SemiColon")>>

\* print(a + b > c);
TokensAddGreater ==
    <<Tok("Print"), Tok("LeftParen"), TokIdentifier("a"), Tok("Plus"),
      TokIdentifier("b"), Tok("GreaterThan"), TokIdentifier("c"),
      Tok("RightParen"), Tok("SemiColon")>>

\* int y = a < b - 1 > "s";
TokensCompareSub ==
    <<Tok("Int"), TokIdentifier("y"), Tok("Assign"), TokIdentifier("a"),
      Tok("LessThan"), TokIdentifier("b"), Tok("Minus"), TokIntegerLiteral(1),
      Tok("GreaterThan"), TokStringLiteral("s"), Tok("SemiColon")>>

\* print(a - (b - c));
TokensParenthesized ==
    <<Tok("Print"), Tok("LeftParen"), TokIdentifier("a"), Tok("Minus"),
      Tok("LeftParen"), TokIdentifier("b"), Tok("Minus"), TokIdentifier("c"),
      Tok("RightParen"), Tok("RightParen"), Tok("SemiColon")>>

\* if (a < 1) { print("hi"); } else { int b = a; }
TokensIfElse ==
    <<Tok("If"), Tok("LeftParen"), TokIdentifier("a"), Tok("LessThan"),
      TokIntegerLiteral(1), Tok("RightParen"),
      Tok("LeftBrace"), Tok("Print"), Tok("LeftParen"), TokStringLiteral("hi"),
      Tok("RightParen"), Tok("SemiColon"), Tok("RightBrace"),
      Tok("Else"), Tok("LeftBrace"), Tok("Int"), TokIdentifier("b"),
      Tok("Assign"), TokIdentifier("a"), Tok("SemiColon"), Tok("RightBrace")>>

\* { paywall(5); print(maybe); }
TokensBlock ==
    <<Tok("LeftBrace"), Tok("Paywall"), Tok("LeftParen"), TokIntegerLiteral(5),
      Tok("RightParen"), Tok("SemiColon"), Tok("Print"), Tok("LeftParen"),
      Tok("Maybe"), Tok("RightParen"), Tok("SemiColon"), Tok("RightBrace")>>

ParserTexts ==
    {TokensDeclPrint, TokensSubSub, TokensAddGreater, TokensCompareSub,
     TokensParenthesized, TokensIfElse, TokensBlock}

EditTokens ==
    {Tok("Minus"), Tok("GreaterThan"), Tok("SemiColon"), Tok("RightParen"),
     Tok("LeftParen"), TokIdentifier("z")}

\* the sequence without its i-th token
WithoutToken(toks, i) == SubSeq(toks, 1, i - 1) \o SubSeq(toks, i + 1, Len(toks))

EditsOf(toks) ==
    {[toks EXCEPT ![i] = t] : i \in DOMAIN toks, t \in EditTokens}
        \cup {WithoutToken(toks, i) : i \in DOMAIN toks}
        \cup {SubSeq(toks, 1, i - 1) : i \in DOMAIN toks}

RECURSIVE Edited(_, _)
Edited(texts, n) ==
    IF n = 0 THEN texts
    ELSE Edited(texts \cup UNION {EditsOf(toks) : toks \in texts}, n - 1)

MaxEdits == 1
ParserInputs == Edited(ParserTexts, MaxEdits)

(***************************************************************************)
(* PIPELINE  (src/src/main.rs)                                             *)
(*                                                                         *)
(* main compiles make_program(repetitions).  The texts below are given to  *)
(* the same pipeline: at most MaxSrcStmts statements of SrcStmtPool, one   *)
(* per line, and a print of eight nested operands.                         *)
(***************************************************************************)
\* the raw string `block` of make_program
block_text ==
    <<"\n", " ", " ", " ", " ", "{", "\n", " ", " ", " ", " ", " ", " ", " ",
      "i", "n", "t", " ", "x", " ", "=", " ", "\"", "6", "9", "\"", ";", "\n",
      " ", " ", " ", " ", " ", " ", " ", "i", "n", "t", " ", "y", " ", "=",
      " ", "\"", "4", "2", "0", "\"", ";", "\n", " ", " ", " ", " ", " ", " ",
      " ", "i", "n", "t", " ", "z", " ", "=", " ", "\"", "x", " ", "+", " ",
      "y", "\"", ";", "\n", " ", " ", " ", " ", "}", "\n", " ", " ", " ", " ">>

repetitions == 1

\* block.repeat(repetitions)
RECURSIVE repeat(_, _)
repeat(text, n) == IF n = 0 THEN <<>> ELSE text \o repeat(text, n - 1)

make_program(n) == repeat(block_text, n)

\* int a = 1;
SrcDeclaration ==
    <<"i", "n", "t", " ", "a", " ", "=", " ", "1", ";">>

\* int a = "69";
SrcStringDeclaration ==
    <<"i", "n", "t", " ", "a", " ", "=", " ", "\"", "6", "9", "\"", ";">>

\* print(a);
SrcPrint ==
    <<"p", "r", "i", "n", "t", "(", "a", ")", ";">>

\* print(a + 1;
SrcUnclosedPrint ==
    <<"p", "r", "i", "n", "t", "(", "a", " ", "+", " ", "1", ";">>

\* { int b = a - 2; }
SrcBlock ==
    <<"{", " ", "i", "n", "t", " ", "b", " ", "=", " ", "a", " ", "-", " ",
      "2", ";", " ", "}">>

\* if (a < 2) { print("hi"); } else { print(b); }
SrcIf ==
    <<"i", "f", " ", "(", "a", " ", "<", " ", "2", ")", " ", "{", " ", "p",
      "r", "i", "n", "t", "(", "\"", "h", "i", "\"", ")", ";", " ", "}", " ",
      "e", "l", "s", "e", " ", "{", " ", "p", "r", "i", "n", "t", "(", "b",
      ")", ";", " ", "}">>

\* print(a+(a+(a+(a+(a+(a+(a+1)))))));
SrcNestedPrint ==
    <<"p", "r", "i", "n", "t", "(", "a", "+", "(", "a", "+", "(", "a", "+",
      "(", "a", "+", "(", "a", "+", "(", "a", "+", "(", "a", "+", "1", ")",
      ")", ")", ")", ")", ")", ")", ";">>

MaxSrcStmts == 2

SrcStmtPool ==
    {SrcDeclaration, SrcStringDeclaration, SrcPrint,
     SrcUnclosedPrint, SrcBlock, SrcIf}

\* the statements, each followed by a newline
RECURSIVE SrcText(_)
SrcText(stmts) ==
    IF stmts = <<>> THEN <<>> ELSE Head(stmts) \o <<"\n">> \o SrcText(Tail(stmts))

MainPrograms ==
    {make_program(repetitions), SrcNestedPrint}
        \cup {SrcText(stmts) : stmts \in SeqsUpTo(SrcStmtPool, MaxSrcStmts)}

(***************************************************************************)
(* STATE                                                                   *)
(***************************************************************************)
\* calls of optimize made on the program under study: each later call is
\* given the previous one's result
MaxCalls == 2

VARIABLES
    constants,        \* Optimizer.constants
    used_variables,   \* Optimizer.used_variables
    opt_fresh,        \* no call of optimize has run on this instance yet
    opt_pc,           \* "idle" or "loop": where optimize is
    current,          \* optimize: current
    iteration,        \* optimize: iteration
    opt_input,        \* optimize: the statements it was called with
    call_fresh,       \* the call in progress began on a new instance
    opt_program,      \* the program given to the first call
    opt_results       \* one entry per finished call: [input, result, fresh, warned]

optVars == <<constants, used_variables, opt_fresh, opt_pc, current, iteration,
             opt_input, call_fresh, opt_program, opt_results>>

VARIABLES
    scopes,        \* SemanticAnalyzer.scopes
    errors,        \* SemanticAnalyzer.errors
    sem_pc,        \* "idle" or "loop": where analyze is
    sem_program,   \* analyze: statements
    sem_index,     \* analyze: the statements its loop has checked
    sem_entry,     \* the analyzer as analyze found it
    sem_before,    \* the analyzer before the statement checked last
    sem_results    \* one entry per finished call: [input, entry, errors, result]

semVars == <<scopes, errors, sem_pc, sem_program, sem_index, sem_entry,
             sem_before, sem_results>>

VARIABLES
    program,       \* lex_program: program
    matches,       \* lex_program: matches
    result,        \* lex_program: result
    last_end,      \* lex_program: last_end
    lex_pc,        \* "collect", "sort", "scan" or "done": where lex_program is
    lex_next,      \* how many of the sorted matches the last loop has seen
    accepted       \* the matches the last loop made tokens of

lexVars == <<program, matches, result, last_end, lex_pc, lex_next, accepted>>

VARIABLES
    data_strings,  \* Codegen.data_strings
    vars,          \* Codegen.vars
    next_offset,   \* Codegen.next_offset
    instrs,        \* Codegen.instrs
    label_id,      \* Codegen.label_id
    temps,         \* Codegen.temps
    gen_pc,        \* "new", "gen", "done" or "panicked": where generate is
    frames,        \* the calls of gen_stmt and gen_expr in progress
    held,          \* the registers their locals hold, the latest first
    gen_program,   \* generate: stmts
    gen_out        \* generate: the text returned, line by line

genVars == <<data_strings, vars, next_offset, instrs, label_id, temps, gen_pc,
             frames, held, gen_program, gen_out>>

VARIABLES
    main_pc,          \* where main is: "lexing", "parsing", "semantic",
                      \* "codegen", "assemble", or "returned", "panicked"
    main_program,     \* main: program
    tokens,           \* main: tokens
    ast,              \* main: ast
    semantic_result,  \* main: semantic_result, None before the analysis
    asm,              \* main: asm, None before the code generation
    out_s             \* the file out.s, None while it is not written

mainVars == <<main_pc, main_program, tokens, ast, semantic_result, asm, out_s>>

VARIABLES
    parser_tokens,   \* Parser.tokens
    parser_pos,      \* Parser.pos
    parser_stmts,    \* parse: stmts
    parser_pc,       \* "new" before parse is called, "loop" in its loop,
                     \* "returned" after it
    parser_result    \* what parse returned: Ok with the statements, or
                     \* Err(UnexpectedToken); None before it returns

parVars == <<parser_tokens, parser_pos, parser_stmts, parser_pc, parser_result>>

allVars == <<optVars, semVars, lexVars, genVars, mainVars, parVars>>

\* what the actions of one component leave alone
OptFrame == UNCHANGED <<semVars, lexVars, genVars, mainVars, parVars>>
SemFrame == UNCHANGED <<optVars, lexVars, genVars, mainVars, parVars>>
LexFrame == UNCHANGED <<optVars, semVars, genVars, mainVars, parVars>>
GenFrame == UNCHANGED <<optVars, semVars, lexVars, mainVars, parVars>>
MainFrame == UNCHANGED <<optVars, semVars, lexVars, genVars, parVars>>
ParFrame == UNCHANGED <<optVars, semVars, lexVars, genVars, mainVars>>

(***************************************************************************)
(* The optimizer's actions                                                 *)
(***************************************************************************)
OptInit ==
    /\ constants = EmptyMap
    /\ used_variables = {}
    /\ opt_fresh = TRUE
    /\ opt_pc = "idle"
    /\ current = <<>>
    /\ iteration = 0
    /\ opt_input = <<>>
    /\ call_fresh = TRUE
    /\ opt_program \in OptPrograms
    /\ opt_results = <<>>

\* Optimizer::new(): the next call runs on a new instance
NewOptimizer ==
    /\ opt_pc = "idle"
    /\ ~opt_fresh
    /\ constants' = EmptyMap
    /\ used_variables' = {}
    /\ opt_fresh' = TRUE
    /\ UNCHANGED <<opt_pc, current, iteration, opt_input, call_fresh, opt_program,
                   opt_results>>
    /\ OptFrame

\* optimize is entered (lines 42-50)
OptimizeCall ==
    /\ opt_pc = "idle"
    /\ Len(opt_results) < MaxCalls
    /\ LET statements == IF opt_results = <<>> THEN opt_program
                         ELSE opt_results[Len(opt_results)].result
       IN  /\ opt_input' = statements
           /\ current' = statements
    /\ call_fresh' = opt_fresh
    /\ iteration' = 0
    /\ opt_pc' = "loop"
    /\ opt_fresh' = FALSE
    /\ UNCHANGED <<constants, used_variables, opt_program, opt_results>>
    /\ OptFrame

\* the loop without its safety limit: it goes on while the program changes
OptimizeStep_unbounded(it, n) ==
    /\ constants' = it.constants
    /\ used_variables' = it.used_variables
    /\ current' = it.current
    /\ iteration' = n
    /\ IF ~it.changed
       THEN /\ opt_pc' = "idle"
            /\ opt_results' = Append(opt_results,
                   [input |-> opt_input, result |-> it.current,
                    fresh |-> call_fresh, warned |-> FALSE])
       ELSE /\ opt_pc' = "loop"
            /\ UNCHANGED opt_results
    /\ UNCHANGED <<opt_fresh, opt_input, call_fresh, opt_program>>

\* the state after one iteration `it` of the loop, the n-th of this call
OptimizeStep(it, n) ==
    /\ constants' = it.constants
    /\ used_variables' = it.used_variables
    /\ current' = it.current
    /\ iteration' = n
    /\ IF ~it.changed \/ n > MaxIterations
       THEN /\ opt_pc' = "idle"
            /\ opt_results' = Append(opt_results,
                   [input |-> opt_input, result |-> it.current,
                    fresh |-> call_fresh, warned |-> it.changed])
       ELSE /\ opt_pc' = "loop"
            /\ UNCHANGED opt_results
    /\ UNCHANGED <<opt_fresh, opt_input, call_fresh, opt_program>>

\* one iteration of the loop (lines 51-83), and the return when it breaks
OptimizeLoop ==
    /\ opt_pc = "loop"
    /\ OptimizeStep(optimize_iteration(constants, current), iteration + 1)
    /\ OptFrame

OptNext == NewOptimizer \/ OptimizeCall \/ OptimizeLoop

(***************************************************************************)
(* Properties of the optimizer                                             *)
(***************************************************************************)
\* the finished calls of optimize
OptCalls == {opt_results[i] : i \in DOMAIN opt_results}

\* the top-level statements of a program that are of kind k
StmtsOfKind(statements, k) == {i \in DOMAIN statements : statements[i].k = k}

\* a comparison of two integer literals, as 3 > 1
IsLiteralComparison(expr) ==
    /\ expr.k = "Binary"
    /\ expr.op \in {"GreaterThan", "LessThan"}
    /\ expr.left.k = "IntegerLiteral"
    /\ expr.right.k = "IntegerLiteral"

\* C3: an if statement whose condition is a comparison of constants is
\* replaced by its taken branch: when every top-level if of the input has
\* such a condition, the result of optimize has no If node left at top level.
C3_ConstantIfReplaced ==
    \A r \in OptCalls :
        (\A i \in StmtsOfKind(r.input, "If") : IsLiteralComparison(r.input[i].condition))
            => StmtsOfKind(r.result, "If") = {}

\* the names a program's statements other than the i-th read or assign
UsedOutside(statements, i) ==
    UNION {collect_used_in_statement(statements[j]) : j \in DOMAIN statements \ {i}}

\* the top-level declaration that follows the i-th statement, 0 if none
NextDecl(statements, i) ==
    LET later == {j \in StmtsOfKind(statements, "VarDeclaration") : j > i}
    IN  IF later = {} THEN 0 ELSE CHOOSE j \in later : \A l \in later : j <= l

\* the top-level declarations form a chain: their names differ, each is
\* referenced by the initializer of the next declaration and by nothing
\* else, and the last one by nothing at all
IsChain(statements) ==
    LET decls == StmtsOfKind(statements, "VarDeclaration")
    IN  /\ decls # {}
        /\ \A i, j \in decls : i # j => statements[i].name # statements[j].name
        /\ \A i \in decls :
            LET next == NextDecl(statements, i)
            IN  /\ statements[i].name \notin UsedOutside(statements, next)
                /\ next # 0 =>
                      statements[i].name \in collect_used_in_statement(statements[next])

ChainLength(statements) == Cardinality(StmtsOfKind(statements, "VarDeclaration"))

C5_Idempotent ==
    \A i \in DOMAIN opt_results :
        i > 1 => opt_results[i].result = opt_results[i].input

\* analyze, on a new analyzer, returns Ok for the program
PassesAnalysis(statements) ==
    check_statements(NewSemanticAnalyzer, statements).errors = <<>>

\* C1: for every program that passes semantic analysis, the result of
\* optimize prints exactly the values the program prints.
C1_BehaviourPreserved ==
    \A r \in OptCalls :
        PassesAnalysis(r.input) => Run(r.result) = Run(r.input)

\* a step of the loop of optimize after which the loop goes on, and one
\* after which optimize has returned
OptimizeGoesOn == opt_pc = "loop" /\ opt_pc' = "loop"
OptimizeReturns == opt_pc = "loop" /\ opt_pc' = "idle"

\* C13: optimize terminates on every input.  The loop goes on only after an
\* iteration that changed the program and while at most MaxIterations
\* iterations have run; it returns after an iteration that left the program
\* unchanged, or after iteration MaxIterations + 1, and what it returns is the
\* program as that iteration left it, with the warning exactly when that
\* iteration still changed it.  A call that has begun returns.
C13_OptimizeTerminates ==
    /\ [][/\ OptimizeGoesOn =>
                /\ current' # current
                /\ iteration' <= MaxIterations
          /\ OptimizeReturns =>
                /\ current' = current \/ iteration' = MaxIterations + 1
                /\ opt_results' =
                      Append(opt_results,
                             [input |-> opt_input, result |-> current',
                              fresh |-> call_fresh,
                              warned |-> current' # current])]_allVars
    /\ (opt_pc = "loop") ~> (opt_pc = "idle")

\* a call has returned with the warning, after iteration MaxIterations + 1
C13_Witness ==
    /\ opt_pc = "idle"
    /\ iteration = MaxIterations + 1
    /\ opt_results # <<>>
    /\ opt_results[Len(opt_results)].warned
    /\ opt_results[Len(opt_results)].result = current

\* the names a statement assigns to, in its expressions and in its blocks
RECURSIVE AssignedInExpression(_)
AssignedInExpression(expr) ==
    CASE expr.k = "Binary" ->
            AssignedInExpression(expr.left) \cup AssignedInExpression(expr.right)
      [] expr.k = "Assign" -> {expr.name} \cup AssignedInExpression(expr.value)
      [] OTHER -> {}

RECURSIVE AssignedInStatement(_)
AssignedInStatement(stmt) ==
    CASE stmt.k = "VarDeclaration" -> AssignedInExpression(stmt.value)
      [] stmt.k = "Print" -> AssignedInExpression(stmt.expr)
      [] stmt.k = "If" ->
            AssignedInExpression(stmt.condition)
                \cup UNION {AssignedInStatement(stmt.then_block[i]) :
                                i \in DOMAIN stmt.then_block}
                \cup (IF stmt.else_block.some
                      THEN UNION {AssignedInStatement(stmt.else_block.v[i]) :
                                      i \in DOMAIN stmt.else_block.v}
                      ELSE {})

\* the names declared by a statement, at any depth
RECURSIVE DeclaredBy(_)
DeclaredBy(stmt) ==
    CASE stmt.k = "VarDeclaration" -> {stmt.name}
      [] stmt.k = "Print" -> {}
      [] stmt.k = "If" ->
            UNION {DeclaredBy(stmt.then_block[i]) : i \in DOMAIN stmt.then_block}
                \cup (IF stmt.else_block.some
                      THEN UNION {DeclaredBy(stmt.else_block.v[i]) :
                                      i \in DOMAIN stmt.else_block.v}
                      ELSE {})

\* statement i of the program assigns to x, and neither it nor a later
\* statement declares x
AssignedLast(statements, i, x) ==
    /\ x \in AssignedInStatement(statements[i])
    /\ \A j \in i..Len(statements) : x \notin DeclaredBy(statements[j])

\* C14: once an Assign to x has been visited, x has no known constant: when
\* a program ends with print(x), and an earlier statement assigns to x with
\* no declaration of x from that statement on, the result of optimize ends
\* with print(x), the reference left as it was.
C14_AssignInvalidates ==
    \A r \in OptCalls : \A x \in OptNames :
        (/\ r.input # <<>>
         /\ r.input[Len(r.input)] = StmtPrint(ExprIdentifier(x))
         /\ \E i \in 1..(Len(r.input) - 1) : AssignedLast(r.input, i, x))
            => /\ r.result # <<>>
               /\ r.result[Len(r.result)] = StmtPrint(ExprIdentifier(x))

\* C15: every iteration starts from an empty table of known constants (and an
\* empty set of referenced names), so no constant found by an earlier
\* iteration rewrites a reference that precedes the declaration: when a
\* program begins with print(x), the result of optimize on a new instance
\* begins with print(x).
C15_IterationStartsEmpty ==
    /\ opt_pc = "loop" /\ call_fresh => constants = EmptyMap
    /\ \A r \in OptCalls : \A x \in OptNames :
          (/\ r.fresh
           /\ r.input # <<>>
           /\ r.input[1] = StmtPrint(ExprIdentifier(x)))
              => /\ r.result # <<>>
                 /\ r.result[1] = StmtPrint(ExprIdentifier(x))

\* the names the statements declare, at any depth
DeclaredAnywhere(statements) ==
    UNION {DeclaredBy(statements[i]) : i \in DOMAIN statements}

\* C16: in the result of optimize no declaration remains, at any depth, whose
\* name is referenced nowhere in the result (calls that ended on the
\* iteration bound set aside).
C16_NoDeadDeclaration ==
    \A r \in OptCalls :
        ~r.warned => DeclaredAnywhere(r.result) \subseteq collect_used_variables(r.result)

(***************************************************************************)
(* The analyzer's actions                                                  *)
(***************************************************************************)
SemInit ==
    /\ scopes = NewSemanticAnalyzer.scopes
    /\ errors = NewSemanticAnalyzer.errors
    /\ sem_pc = "idle"
    /\ sem_program \in SemPrograms
    /\ sem_index = 0
    /\ sem_entry = NewSemanticAnalyzer
    /\ sem_before = NewSemanticAnalyzer
    /\ sem_results = <<>>

\* SemanticAnalyzer::new(): the next call runs on a new instance
NewAnalyzer ==
    /\ sem_pc = "idle"
    /\ SemanticAnalyzer(scopes, errors) # NewSemanticAnalyzer
    /\ scopes' = NewSemanticAnalyzer.scopes
    /\ errors' = NewSemanticAnalyzer.errors
    /\ UNCHANGED <<sem_pc, sem_program, sem_index, sem_entry, sem_before,
                   sem_results>>
    /\ SemFrame

\* analyze is entered
AnalyzeCall ==
    /\ sem_pc = "idle"
    /\ Len(sem_results) < MaxCalls
    /\ sem_pc' = "loop"
    /\ sem_index' = 0
    /\ sem_entry' = SemanticAnalyzer(scopes, errors)
    /\ sem_before' = SemanticAnalyzer(scopes, errors)
    /\ UNCHANGED <<scopes, errors, sem_program, sem_results>>
    /\ SemFrame

\* the analyzer is left as `self` by the statement checked
AnalyzeStep(self) ==
    /\ scopes' = self.scopes
    /\ errors' = self.errors

\* one round of the loop of analyze (lines 76-78)
AnalyzeLoop ==
    /\ sem_pc = "loop"
    /\ sem_index < Len(sem_program)
    /\ AnalyzeStep(check_statement(SemanticAnalyzer(scopes, errors),
                                   sem_program[sem_index + 1]))
    /\ sem_index' = sem_index + 1
    /\ sem_before' = SemanticAnalyzer(scopes, errors)
    /\ UNCHANGED <<sem_pc, sem_program, sem_entry, sem_results>>
    /\ SemFrame

\* the loop is over: analyze returns (lines 80-84)
AnalyzeReturn ==
    /\ sem_pc = "loop"
    /\ sem_index = Len(sem_program)
    /\ sem_pc' = "idle"
    /\ sem_results' = Append(sem_results,
           [input |-> sem_program, entry |-> sem_entry, errors |-> errors,
            result |-> analyze_result(errors)])
    /\ UNCHANGED <<scopes, errors, sem_program, sem_index, sem_entry, sem_before>>
    /\ SemFrame

SemNext == NewAnalyzer \/ AnalyzeCall \/ AnalyzeLoop \/ AnalyzeReturn

(***************************************************************************)
(* Properties of the analyzer                                              *)
(***************************************************************************)
\* the finished calls of analyze
SemCalls == {sem_results[i] : i \in DOMAIN sem_results}

\* the diagnostics a call of analyze recorded
NewErrors(r) ==
    {r.errors[i] : i \in (Len(r.entry.errors) + 1)..Len(r.errors)}

\* the names a block declares, at its own level
DeclaredIn(block) == {block[i].name : i \in StmtsOfKind(block, "VarDeclaration")}

\* the names an if statement declares in its then or its else block
BranchDeclared(stmt) ==
    IF stmt.k # "If" THEN {}
    ELSE DeclaredIn(stmt.then_block)
            \cup (IF stmt.else_block.some THEN DeclaredIn(stmt.else_block.v) ELSE {})

\* a declaration of the name is visible at the j-th top-level statement of
\* the call: the global scope held one at entry, or an earlier top-level
\* statement is one
VisibleAt(r, j, name) ==
    \/ \E i \in DOMAIN r.entry.scopes : name \in DOMAIN r.entry.scopes[i]
    \/ \E d \in StmtsOfKind(r.input, "VarDeclaration") :
          d < j /\ r.input[d].name = name

\* C7: a variable declared in a branch of an if statement is not visible
\* after it: every statement after the if that refers to its name, where no
\* declaration of the enclosing scope makes that name visible, records
\* UndeclaredVariable with that name.
C7_BranchLocalUndeclared ==
    \A r \in SemCalls : \A i, j \in DOMAIN r.input :
        \A name \in BranchDeclared(r.input[i]) :
            (/\ i < j
             /\ name \in collect_used_in_statement(r.input[j])
             /\ ~VisibleAt(r, j, name))
                => UndeclaredVariable(name) \in NewErrors(r)

\* the loop of analyze has just checked a top-level declaration
DeclarationChecked ==
    /\ sem_pc = "loop"
    /\ sem_index > 0
    /\ sem_program[sem_index].k = "VarDeclaration"

\* the type check_expression finds for the initializer of that declaration
InitializerChecked ==
    check_expression(sem_before, sem_program[sem_index].value)

\* the declaration recorded one diagnostic, TypeMismatch { Int, String },
\* and left the name bound to Int, so that a reference to it records nothing
OneMismatchAndBound ==
    LET name == sem_program[sem_index].name
    IN  /\ Len(errors) = Len(sem_before.errors) + 1
        /\ SubSeq(errors, 1, Len(sem_before.errors)) = sem_before.errors
        /\ errors[Len(errors)].e = "TypeMismatch"
        /\ errors[Len(errors)].expected = "Int"
        /\ errors[Len(errors)].found = "String"
        /\ name \in DOMAIN scopes[Len(scopes)]
        /\ scopes[Len(scopes)][name] = "Int"
        /\ check_identifier(SemanticAnalyzer(scopes, errors), name).self.errors = errors

\* C8 as stated: a declaration whose initializer has type String records
\* exactly one diagnostic, TypeMismatch with expected Int and found String,
\* and the variable is still bound to Int.
C8_StringInitializer ==
    (DeclarationChecked /\ InitializerChecked.type = "String")
        => OneMismatchAndBound

\* C8, amended: so does a declaration whose initializer has type String,
\* when the name is not yet declared in the current scope and the
\* initializer records no diagnostic of its own.
C8_StringInitializerOfNewName ==
    (/\ DeclarationChecked
     /\ InitializerChecked.type = "String"
     /\ InitializerChecked.self.errors = sem_before.errors
     /\ sem_program[sem_index].name \notin
            DOMAIN sem_before.scopes[Len(sem_before.scopes)])
        => OneMismatchAndBound

\* int a = "hi"; was checked where a was not declared yet
C8_Witness ==
    /\ DeclarationChecked
    /\ sem_program[sem_index].value = ExprStringLiteral("hi")
    /\ sem_program[sem_index].name \notin
           DOMAIN sem_before.scopes[Len(sem_before.scopes)]
    /\ OneMismatchAndBound

\* the names a program refers to that neither it nor the analyzer it is
\* given to declares anywhere
NeverDeclared(r) ==
    collect_used_variables(r.input)
        \ (UNION {DeclaredBy(r.input[i]) : i \in DOMAIN r.input}
              \cup UNION {DOMAIN r.entry.scopes[i] : i \in DOMAIN r.entry.scopes})

\* C9: analyze checks every statement and sub-expression whatever was
\* recorded before, the initializer of a redeclared variable included: each
\* name referred to and declared nowhere is recorded as UndeclaredVariable,
\* and analyze returns Err exactly when a diagnostic is recorded.
C9_EveryViolationRecorded ==
    \A r \in SemCalls :
        /\ \A name \in NeverDeclared(r) : UndeclaredVariable(name) \in NewErrors(r)
        /\ r.result.ok <=> (r.errors = <<>>)

\* the loop of analyze has just checked a top-level statement
StatementChecked == sem_pc = "loop" /\ sem_index > 0

\* The operands of the construct that encloses them in the statement: the two
\* sides of a printed binary expression, the value of a printed assignment
\* to a declared name, the initializer of a declaration of a new name.
OperandsOf(self, stmt) ==
    CASE stmt.k = "Print" /\ stmt.expr.k = "Binary" ->
            <<stmt.expr.left, stmt.expr.right>>
      [] stmt.k = "Print" /\ stmt.expr.k = "Assign"
            /\ lookup_variable(self, stmt.expr.name).some ->
            <<stmt.expr.value>>
      [] stmt.k = "VarDeclaration"
            /\ stmt.name \notin DOMAIN self.scopes[Len(self.scopes)] ->
            <<stmt.value>>
      [] OTHER -> <<>>

\* the analyzer after the checks of the operands, and whether one of them
\* has type Unknown
RECURSIVE OperandsChecked(_, _, _)
OperandsChecked(self, operands, unknown) ==
    IF operands = <<>> THEN [self |-> self, unknown |-> unknown]
    ELSE LET first == check_expression(self, Head(operands))
         IN  OperandsChecked(first.self, Tail(operands),
                             unknown \/ first.type = "Unknown")

\* C17: one erroneous sub-expression yields one diagnostic: when an operand
\* has type Unknown, the binary expression, assignment or declaration that
\* encloses it records nothing more than the checks of its operands did.
C17_NoCascade ==
    StatementChecked =>
        LET checked == OperandsChecked(sem_before,
                           OperandsOf(sem_before, sem_program[sem_index]), FALSE)
        IN  checked.unknown => errors = checked.self.errors

\* the statement just checked had its expression checked, and that
\* expression is an assignment: a printed one, or the initializer of a
\* declaration of a new name
AssignmentChecked ==
    /\ StatementChecked
    /\ LET stmt == sem_program[sem_index]
       IN  \/ stmt.k = "Print" /\ stmt.expr.k = "Assign"
           \/ /\ stmt.k = "VarDeclaration"
              /\ stmt.value.k = "Assign"
              /\ stmt.name \notin DOMAIN sem_before.scopes[Len(sem_before.scopes)]

\* that assignment
AssignmentOf(stmt) == IF stmt.k = "Print" THEN stmt.expr ELSE stmt.value

\* the diagnostics `after` holds beyond those of `before`
Recorded(before, after) ==
    {after.errors[i] : i \in (Len(before.errors) + 1)..Len(after.errors)}

\* C18: the type of an assignment to a declared target is the target's
\* declared type, whatever the type of the value, and a TypeMismatch is
\* recorded when the value's type is known and differs from it; an
\* assignment to an undeclared target records UndeclaredVariable.
C18_AssignmentType ==
    AssignmentChecked =>
        LET assign == AssignmentOf(sem_program[sem_index])
            target == lookup_variable(sem_before, assign.name)
            value == check_expression(sem_before, assign.value)
            checked == check_assignment(sem_before, assign.name, assign.value)
            recorded == Recorded(sem_before, SemanticAnalyzer(scopes, errors))
        IN  /\ Recorded(sem_before, checked.self) \subseteq recorded
            /\ IF target.some
               THEN /\ checked.type = target.v
                    /\ value.type \notin {"Unknown", target.v} =>
                           \E err \in recorded :
                               /\ err.e = "TypeMismatch"
                               /\ err.expected = target.v
                               /\ err.found = value.type
               ELSE UndeclaredVariable(assign.name) \in recorded

\* the top-level statement just checked
CheckedStatement == sem_program[sem_index]

\* the analyzer inside the then block of the if statement just checked,
\* after the first n statements of the block
InsideThen(n) ==
    check_statements(
        enter_scope(check_condition(check_expression(sem_before,
                                                     CheckedStatement.condition))),
        SubSeq(CheckedStatement.then_block, 1, n))

\* the n-th statement of that then block declares a name that the block has
\* not declared before and an enclosing scope has
ShadowingAt(n) ==
    LET block == CheckedStatement.then_block
    IN  /\ block[n].k = "VarDeclaration"
        /\ \A m \in 1..(n - 1) : block[n].name \notin DeclaredBy(block[m])
        /\ lookup_variable(sem_before, block[n].name).some

\* C19: a declaration of a name already declared in the innermost scope
\* records Redeclaration and changes no binding.  A declaration, in the scope
\* of a then block, of a name declared in an enclosing scope only, records no
\* Redeclaration and binds the name in the scope of the block, where lookups
\* find that binding; after the if statement the scopes are those before it.
C19_ScopedDeclaration ==
    StatementChecked =>
        /\ (/\ CheckedStatement.k = "VarDeclaration"
            /\ CheckedStatement.name
                   \in DOMAIN sem_before.scopes[Len(sem_before.scopes)])
              => /\ errors = Append(sem_before.errors,
                                    Redeclaration(CheckedStatement.name))
                 /\ scopes = sem_before.scopes
        /\ CheckedStatement.k = "If" =>
              /\ scopes = sem_before.scopes
              /\ \A n \in DOMAIN CheckedStatement.then_block :
                    ShadowingAt(n) =>
                        LET name == CheckedStatement.then_block[n].name
                            inner == Len(sem_before.scopes) + 1
                        IN  /\ Redeclaration(name)
                                   \notin Recorded(sem_before, InsideThen(n))
                            /\ Len(InsideThen(n).scopes) = inner
                            /\ name \in DOMAIN InsideThen(n).scopes[inner]
                            /\ lookup_variable(InsideThen(n), name)
                                   = Some(InsideThen(n).scopes[inner][name])
                            /\ SubSeq(InsideThen(n).scopes, 1, inner - 1)
                                   = sem_before.scopes

\* an if statement was checked whose then block declares a, which the
\* enclosing scope declares too; and a top-level redeclaration was checked
C19_Witness ==
    /\ StatementChecked
    /\ CheckedStatement.k = "If"
    /\ \E n \in DOMAIN CheckedStatement.then_block : ShadowingAt(n)
    /\ \E i \in 1..(sem_index - 1) :
          /\ sem_program[i].k = "VarDeclaration"
          /\ \E j \in 1..(i - 1) :
                /\ sem_program[j].k = "VarDeclaration"
                /\ sem_program[j].name = sem_program[i].name
    /\ Redeclaration("a") \in Recorded(sem_entry, SemanticAnalyzer(scopes, errors))

\* C28: what a call of analyze returns depends on the program it was given
\* alone.  Whatever calls the analyzer has gone through before, the call
\* returns what the same call returns on a new analyzer: Ok for a program
\* that passes analysis, and else the diagnostics of this program only, with
\* no error and no declaration of an earlier call in them.
C28_ResultOfProgramOnly ==
    \A r \in SemCalls :
        r.result = analyze_result(check_statements(NewSemanticAnalyzer, r.input).errors)
\* the analyzer inside the else block of the if statement just checked,
\* after the first n statements of the block
InsideElse(n) ==
    check_statements(
        enter_scope(check_block(check_condition(
                                    check_expression(sem_before,
                                                     CheckedStatement.condition)),
                                CheckedStatement.then_block)),
        SubSeq(CheckedStatement.else_block.v, 1, n))

\* C29: the scope stack never is empty and the global scope is never popped.
\* A statement leaves the stack as deep as it found it and the scopes below
\* the top as they were: inside a block of an if statement the stack is one
\* scope deeper, the scope enter_scope pushed, which exit_scope pops; and
\* whenever analyze is not running, so when it returns, the depth is 1,
\* whatever diagnostics were recorded.
C29_ScopesBalanced ==
    /\ Len(scopes) >= 1
    /\ sem_pc = "idle" => Len(scopes) = 1
    /\ StatementChecked =>
          /\ Len(scopes) = Len(sem_before.scopes)
          /\ SubSeq(scopes, 1, Len(scopes) - 1)
                = SubSeq(sem_before.scopes, 1, Len(scopes) - 1)
          /\ CheckedStatement.k = "If" =>
                /\ \A n \in 0..Len(CheckedStatement.then_block) :
                      /\ Len(InsideThen(n).scopes) = Len(sem_before.scopes) + 1
                      /\ SubSeq(InsideThen(n).scopes, 1, Len(sem_before.scopes))
                            = sem_before.scopes
                /\ CheckedStatement.else_block.some =>
                      \A n \in 0..Len(CheckedStatement.else_block.v) :
                          /\ Len(InsideElse(n).scopes) = Len(sem_before.scopes) + 1
                          /\ SubSeq(InsideElse(n).scopes, 1, Len(sem_before.scopes))
                                = sem_before.scopes

\* analyze has returned with diagnostics after it checked an if statement
\* that has both blocks: the depth is 1
C29_Witness ==
    /\ sem_pc = "idle"
    /\ sem_results # <<>>
    /\ ~sem_results[Len(sem_results)].result.ok
    /\ \E i \in DOMAIN sem_program :
          sem_program[i].k = "If" /\ sem_program[i].else_block.some
    /\ Len(scopes) = 1
(***************************************************************************)
(* The lexer's actions                                                     *)
(***************************************************************************)
LexInit ==
    /\ program \in LexPrograms
    /\ matches = <<>>
    /\ result = <<>>
    /\ last_end = 0
    /\ lex_pc = "collect"
    /\ lex_next = 0
    /\ accepted = <<>>

\* the loop over the token types (lines 34-43)
LexCollect ==
    /\ lex_pc = "collect"
    /\ matches' = collect_matches(program, Len(TokenTypes))
    /\ lex_pc' = "sort"
    /\ UNCHANGED <<program, result, last_end, lex_next, accepted>>
    /\ LexFrame

\* matches.sort_by (lines 46-49)
LexSort ==
    /\ lex_pc = "sort"
    /\ matches' = sort_by(matches)
    /\ lex_pc' = "scan"
    /\ UNCHANGED <<program, result, last_end, lex_next, accepted>>
    /\ LexFrame

\* one round of the loop over the sorted matches (lines 54-102)
LexScan ==
    /\ lex_pc = "scan"
    /\ lex_next < Len(matches)
    /\ lex_next' = lex_next + 1
    /\ LET scan == scan_match(program, Scan(result, last_end, accepted),
                              matches[lex_next + 1])
       IN  /\ result' = scan.result
           /\ last_end' = scan.last_end
           /\ accepted' = scan.accepted
    /\ UNCHANGED <<program, matches, lex_pc>>
    /\ LexFrame

\* lex_program returns result (line 104)
LexReturn ==
    /\ lex_pc = "scan"
    /\ lex_next = Len(matches)
    /\ lex_pc' = "done"
    /\ UNCHANGED <<program, matches, result, last_end, lex_next, accepted>>
    /\ LexFrame

LexNext == LexCollect \/ LexSort \/ LexScan \/ LexReturn

(***************************************************************************)
(* Properties of the lexer                                                 *)
(***************************************************************************)
\* the place of a token type in the list of lex_program
TokenIndex(token_type) ==
    CHOOSE i \in DOMAIN TokenTypes : TokenTypes[i] = token_type

\* the matches found, once they are all collected
Candidates ==
    IF lex_pc \in {"scan", "done"} THEN {matches[i] : i \in DOMAIN matches} ELSE {}

\* C10: of the candidate matches that start where an accepted match starts,
\* the accepted one is the longest, and of the longest ones the first in the
\* list of token types (a keyword before Identifier); so no accepted
\* keyword is followed directly by an identifier character.
C10_LongestMatchAccepted ==
    \A i \in DOMAIN accepted :
        /\ \A c \in Candidates :
              c.start = accepted[i].start =>
                  /\ c.end <= accepted[i].end
                  /\ c.end = accepted[i].end =>
                        TokenIndex(accepted[i].token_type) <= TokenIndex(c.token_type)
        /\ accepted[i].token_type \in {"Print", "If", "Else"} =>
              \/ accepted[i].end = Len(program)
              \/ program[accepted[i].end + 1] \notin IdentifierChar

\* if2 was lexed: into the one token Identifier("if2")
C10_Witness ==
    /\ lex_pc = "done"
    /\ program = <<"i", "f", "2">>
    /\ Match("If", 0, 2) \in Candidates
    /\ result = <<[type |-> "Identifier", s |-> "if2"]>>

\* the offsets of the quotes of the text, and how many quotes come before one
QuoteOffsets(text) == {o \in 0..(Len(text) - 1) : text[o + 1] = "\""}
QuotesBefore(text, o) == Cardinality({q \in QuoteOffsets(text) : q < o})

\* the string literals of the text, [open, close] the offsets of the quotes
\* of each: the quotes pair up from the left, an opening one and the next
StringLiteralsOf(text) ==
    {[open |-> o, close |-> c] : o \in QuoteOffsets(text), c \in QuoteOffsets(text)} \cap
    {l \in [open : 0..Len(text), close : 0..Len(text)] :
        /\ QuotesBefore(text, l.open) % 2 = 0
        /\ QuotesBefore(text, l.close) = QuotesBefore(text, l.open) + 1}

\* C24: when lex_program returns, every string literal of the program has a
\* StringLiteral token of its own: a match from its opening quote to its
\* closing quote was accepted, and the token made of it carries the text
\* between the two quotes; two literals have two tokens.
C24_EveryLiteralItsToken ==
    lex_pc = "done" =>
        \A l \in StringLiteralsOf(program) :
            \E i \in DOMAIN accepted :
                /\ accepted[i] = Match("StringLiteral", l.open, l.close + 1)
                /\ result[i] = [type |-> "StringLiteral",
                                s |-> lexeme_of(program, l.open + 1, l.close)]
(***************************************************************************)
(* The code generator's actions                                            *)
(***************************************************************************)
GenInit ==
    /\ data_strings = NewCodegen.data_strings
    /\ vars = NewCodegen.vars
    /\ next_offset = NewCodegen.next_offset
    /\ instrs = NewCodegen.instrs
    /\ label_id = NewCodegen.label_id
    /\ temps = NewCodegen.temps
    /\ gen_pc = "new"
    /\ frames = <<>>
    /\ held = <<>>
    /\ gen_program \in GenPrograms
    /\ gen_out = None

\* the generator is left as `self`
GenSelf(self) ==
    /\ data_strings' = self.data_strings
    /\ vars' = self.vars
    /\ next_offset' = self.next_offset
    /\ instrs' = self.instrs
    /\ label_id' = self.label_id
    /\ temps' = self.temps

\* the generator as it is
ThisCodegen ==
    Codegen(data_strings, vars, next_offset, instrs, label_id, temps)

\* generate is entered: the prologue, and the loop over stmts is set up
\* (lines 28-30)
Generate ==
    /\ gen_pc = "new"
    /\ GenSelf(emit_prologue(ThisCodegen))
    /\ frames' = StmtFrames(gen_program)
    /\ gen_pc' = "gen"
    /\ UNCHANGED <<held, gen_program, gen_out>>
    /\ GenFrame

\* gen_stmt or gen_expr goes on, up to its next call or its return
GenStep ==
    /\ gen_pc = "gen"
    /\ frames # <<>>
    /\ ~gen_step(ThisCodegen, frames, held).panic
    /\ GenSelf(gen_step(ThisCodegen, frames, held).self)
    /\ frames' = gen_step(ThisCodegen, frames, held).frames
    /\ held' = gen_step(ThisCodegen, frames, held).held
    /\ UNCHANGED <<gen_pc, gen_program, gen_out>>
    /\ GenFrame

\* alloc_tmp finds the pool empty: expect("out of registers") panics and
\* generate returns nothing
GenPanic ==
    /\ gen_pc = "gen"
    /\ frames # <<>>
    /\ gen_step(ThisCodegen, frames, held).panic
    /\ GenSelf(gen_step(ThisCodegen, frames, held).self)
    /\ gen_pc' = "panicked"
    /\ UNCHANGED <<frames, held, gen_program, gen_out>>
    /\ GenFrame

\* the loop is over: the epilogue, and the text is returned (lines 34-56)
GenReturn ==
    /\ gen_pc = "gen"
    /\ frames = <<>>
    /\ GenSelf(emit_epilogue(ThisCodegen))
    /\ gen_out' = Some(assembly(emit_epilogue(ThisCodegen)))
    /\ gen_pc' = "done"
    /\ UNCHANGED <<frames, held, gen_program>>
    /\ GenFrame

GenNext == Generate \/ GenStep \/ GenPanic \/ GenReturn

(***************************************************************************)
(* Properties of the code generator                                        *)
(***************************************************************************)
\* the registers gen_expr holds at once while it evaluates the expression:
\* the left operand's register is held while the right one is evaluated
RECURSIVE registers_needed(_)
registers_needed(expr) ==
    CASE expr.k = "Binary" ->
            IF registers_needed(expr.left) >= 1 + registers_needed(expr.right)
            THEN registers_needed(expr.left)
            ELSE 1 + registers_needed(expr.right)
      [] expr.k = "Assign" -> registers_needed(expr.value)
      [] OTHER -> 1

\* the expressions gen_stmt passes to gen_expr in the statements
RECURSIVE GeneratedExprs(_)
GeneratedExprs(stmts) ==
    IF stmts = <<>> THEN {}
    ELSE GeneratedExprs(Tail(stmts)) \cup
         (LET stmt == Head(stmts)
          IN  CASE stmt.k = "Block" -> GeneratedExprs(stmt.stmts)
                [] stmt.k = "VarDeclaration" -> {stmt.value}
                [] stmt.k = "Print" ->
                      IF stmt.expr.k = "StringLiteral" THEN {} ELSE {stmt.expr}
                [] stmt.k = "If" ->
                      {stmt.condition} \cup GeneratedExprs(stmt.then_block)
                          \cup (IF stmt.else_block.some
                                THEN GeneratedExprs(stmt.else_block.v) ELSE {})
                [] stmt.k = "ExprStmt" -> {stmt.expr})

\* an expression of the program needs more registers than the pool has
NeedsTooMany ==
    \E expr \in GeneratedExprs(gen_program) : registers_needed(expr) > PoolSize

NoRepeat(seq) == \A i, j \in DOMAIN seq : seq[i] = seq[j] => i = j

\* every register is either free or held, and in one place only
PoolSound ==
    /\ NoRepeat(temps \o held)
    /\ {(temps \o held)[i] : i \in DOMAIN (temps \o held)} = Registers

\* C6: the generation of a program with an expression that needs more
\* registers at once than the pool holds ends in the panic of alloc_tmp and
\* returns no text; and at every point of every generation each of the 7
\* registers is either once in the pool or held by one live subexpression,
\* never both and never twice.
C6_PoolExhaustionPanics ==
    /\ [](PoolSound /\ (NeedsTooMany => gen_pc # "done" /\ gen_out = None))
    /\ (NeedsTooMany ~> gen_pc = "panicked")

\* alloc_tmp was called with all 7 registers held by the operands of an
\* expression of 8 nested operands, and panicked
C6_Witness ==
    /\ gen_pc = "panicked"
    /\ gen_program = <<StmtPrint(RightNested(PoolSize + 1))>>
    /\ temps = <<>>
    /\ {held[i] : i \in DOMAIN held} = Registers
    /\ Head(frames) = ExprFrame(ExprIntegerLiteral(1))

\* the names gen_expr calls alloc_var with, in the order of the calls: an
\* assignment allocates after the code of its value
RECURSIVE AllocatedByExpr(_)
AllocatedByExpr(expr) ==
    CASE expr.k = "Binary" ->
            AllocatedByExpr(expr.left) \o AllocatedByExpr(expr.right)
      [] expr.k = "Assign" -> AllocatedByExpr(expr.value) \o <<expr.name>>
      [] OTHER -> <<>>

\* the names gen_stmt calls alloc_var with over the statements, in the order
\* of the calls: a declaration allocates before the code of its initializer
RECURSIVE AllocatedBy(_)
AllocatedBy(stmts) ==
    IF stmts = <<>> THEN <<>>
    ELSE (LET stmt == Head(stmts)
          IN  CASE stmt.k = "Block" -> AllocatedBy(stmt.stmts)
                [] stmt.k = "VarDeclaration" ->
                      <<stmt.name>> \o AllocatedByExpr(stmt.value)
                [] stmt.k = "Print" -> AllocatedByExpr(stmt.expr)
                [] stmt.k = "If" ->
                      AllocatedByExpr(stmt.condition)
                          \o AllocatedBy(stmt.then_block)
                          \o (IF stmt.else_block.some
                              THEN AllocatedBy(stmt.else_block.v) ELSE <<>>)
                [] stmt.k = "ExprStmt" -> AllocatedByExpr(stmt.expr))
         \o AllocatedBy(Tail(stmts))

\* how many distinct names the sequence holds before the first `name`
DistinctBefore(names, name) ==
    LET first == CHOOSE i \in DOMAIN names :
                    names[i] = name /\ \A j \in 1..(i - 1) : names[j] # name
    IN  Cardinality({names[j] : j \in 1..(first - 1)})

\* the slots of the names of the program: the k-th name to be declared or
\* assigned has the offset 8 * (k - 1)
SlotsOf(stmts) ==
    LET names == AllocatedBy(stmts)
    IN  [name \in {names[i] : i \in DOMAIN names} |->
            8 * DistinctBefore(names, name)]

\* C20: every name has one slot for the whole generation, given the first
\* time the name is declared or assigned: at every point the slot of a name
\* is the one its place among the names of the program gives it, the offsets
\* handed out are 0, 8, 16, ... without a gap, no two names share one, and
\* the generation that returns leaves every declared or assigned name a slot.
C20_OneSlotPerName ==
    /\ \A name \in DOMAIN vars :
          /\ name \in DOMAIN SlotsOf(gen_program)
          /\ vars[name] = SlotsOf(gen_program)[name]
    /\ {vars[name] : name \in DOMAIN vars}
          = {8 * k : k \in 0..(Cardinality(DOMAIN vars) - 1)}
    /\ next_offset = 8 * Cardinality(DOMAIN vars)
    /\ \A x, y \in DOMAIN vars : vars[x] = vars[y] => x = y
    /\ gen_pc = "done" => DOMAIN vars = DOMAIN SlotsOf(gen_program)

\* int c = b = 2; int a = 1; was generated: c was declared before b was
\* assigned, and a came last
C20_Witness ==
    /\ gen_pc = "done"
    /\ gen_program = <<StmtVarDeclaration("c", ExprAssign("b", ExprIntegerLiteral(2))),
                       StmtVarDeclaration("a", ExprIntegerLiteral(1))>>
    /\ vars = [c |-> 0, b |-> 8, a |-> 16]
    /\ next_offset = 24

\* the frames that end the generation of a statement: the store of a
\* declaration, the call of printf, the free_tmp of an expression statement
\* and the end label of an if
StatementEnds == {"declaration_store", "print_int", "expr_free", "if_end"}

\* the step that ends the generation of a statement is taken
StatementCompletes ==
    /\ gen_pc = "gen"
    /\ frames # <<>>
    /\ Head(frames).t \in StatementEnds
    /\ gen_pc' = "gen"

\* C21: the scratch registers are freed in the reverse order of their
\* allocation and each once: the pool followed by the registers held, the
\* latest first, is always x9 .. x15 in the order of new(); and when the
\* generation of a statement completes, be it in a block of an if statement,
\* all 7 registers are in the pool.
C21_StackDiscipline ==
    /\ [](temps \o held = NewCodegen.temps)
    /\ [][StatementCompletes => temps' = NewCodegen.temps]_allVars

\* the labels label has made so far, which the If arm asks for two at a time
\* (else_<n>, then endif_<n+1>), and "main" of the prologue
MintedLabels ==
    {"main"} \cup {"else_" \o ToString(n) : n \in {m \in 0..(label_id - 1) : m % 2 = 0}}
             \cup {"endif_" \o ToString(n) : n \in {m \in 0..(label_id - 1) : m % 2 = 1}}

\* the labels the text defines, in the order of their definitions: the two
\* format strings, the data labels, and the label lines of the instructions
DefinedLabels ==
    <<"fmt_int", "fmt_str">>
        \o [i \in DOMAIN data_strings |-> data_strings[i][1]]
        \o SelectSeq([i \in DOMAIN instrs |->
                         IF \E l \in MintedLabels : instrs[i] = l \o ":"
                         THEN CHOOSE l \in MintedLabels : instrs[i] = l \o ":"
                         ELSE ""],
                     LAMBDA l : l # "")

\* the string literals gen_expr and gen_stmt intern, in the order of generation
RECURSIVE InternedByExpr(_)
InternedByExpr(expr) ==
    CASE expr.k = "StringLiteral" -> <<expr.s>>
      [] expr.k = "Assign" -> InternedByExpr(expr.value)
      [] expr.k = "Binary" -> InternedByExpr(expr.left) \o InternedByExpr(expr.right)
      [] OTHER -> <<>>

RECURSIVE InternedBy(_)
InternedByStmt(stmt) ==
    CASE stmt.k = "Block" -> InternedBy(stmt.stmts)
      [] stmt.k = "VarDeclaration" -> InternedByExpr(stmt.value)
      [] stmt.k = "Print" -> InternedByExpr(stmt.expr)
      [] stmt.k = "If" ->
            InternedByExpr(stmt.condition) \o InternedBy(stmt.then_block)
                \o (IF stmt.else_block.some THEN InternedBy(stmt.else_block.v)
                    ELSE <<>>)
      [] stmt.k = "ExprStmt" -> InternedByExpr(stmt.expr)

InternedBy(stmts) ==
    IF stmts = <<>> THEN <<>>
    ELSE InternedByStmt(Head(stmts)) \o InternedBy(Tail(stmts))

\* the if statements of the statements, nested ones included
RECURSIVE IfsIn(_)
IfsInStmt(stmt) ==
    CASE stmt.k = "Block" -> IfsIn(stmt.stmts)
      [] stmt.k = "If" ->
            1 + IfsIn(stmt.then_block)
              + (IF stmt.else_block.some THEN IfsIn(stmt.else_block.v) ELSE 0)
      [] OTHER -> 0

IfsIn(stmts) ==
    IF stmts = <<>> THEN 0 ELSE IfsInStmt(Head(stmts)) + IfsIn(Tail(stmts))

\* an if statement gets its two labels
IfLabelled ==
    /\ gen_pc = "gen"
    /\ frames # <<>>
    /\ Head(frames).t = "if_then"
    /\ gen_pc' = "gen"

\* C22: every label of the generated assembly is defined exactly once.  No
\* label is defined twice at any moment of the generation; the label counter
\* never decreases and the data labels made stay as they are; each if
\* statement takes two new labels, else_<n> and endif_<n+1>, from the counter;
\* and in the text generate returns every label made is defined, the labels
\* of the ifs two for each if, the data labels one for each string literal of
\* the program, a literal met again getting a label of its own.
C22_LabelsDefinedOnce ==
    /\ [](NoRepeat(DefinedLabels))
    /\ [][/\ label_id' >= label_id
          /\ Len(data_strings') >= Len(data_strings)
          /\ SubSeq(data_strings', 1, Len(data_strings)) = data_strings]_allVars
    /\ [][IfLabelled =>
            /\ label_id' = label_id + 2
            /\ \E i \in DOMAIN frames' :
                  /\ frames'[i].t = "if_else"
                  /\ frames'[i].else_l = "else_" \o ToString(label_id)
                  /\ frames'[i].end_l = "endif_" \o ToString(label_id + 1)
                  /\ frames'[i].else_l \notin MintedLabels
                  /\ frames'[i].end_l \notin MintedLabels]_allVars
    /\ [](gen_pc = "done" =>
            /\ label_id = 2 * IfsIn(gen_program)
            /\ \A l \in MintedLabels :
                  Cardinality({i \in DOMAIN gen_out.v : gen_out.v[i] = l \o ":"}) = 1
            /\ data_strings =
                  [i \in DOMAIN InternedBy(gen_program) |->
                      <<".LC" \o ToString(i - 1), InternedBy(gen_program)[i]>>]
            /\ \A i \in DOMAIN data_strings :
                  Cardinality({j \in DOMAIN gen_out.v :
                                  gen_out.v[j] = DataLine(data_strings[i])}) = 1)

\* two ifs and the same literal twice: four labels, two data labels
C22_Witness ==
    /\ gen_pc = "done"
    /\ label_id = 4
    /\ Len(data_strings) = 2
    /\ data_strings[1][2] = data_strings[2][2]
    /\ data_strings[1][1] # data_strings[2][1]
\* the print statements of the statements whose argument is a string literal
\* (literal = TRUE) or is not (literal = FALSE), nested ones included
RECURSIVE PrintsIn(_, _)
PrintsInStmt(stmt, literal) ==
    CASE stmt.k = "Block" -> PrintsIn(stmt.stmts, literal)
      [] stmt.k = "Print" ->
            IF (stmt.expr.k = "StringLiteral") = literal THEN 1 ELSE 0
      [] stmt.k = "If" ->
            PrintsIn(stmt.then_block, literal)
              + (IF stmt.else_block.some THEN PrintsIn(stmt.else_block.v, literal)
                 ELSE 0)
      [] OTHER -> 0

PrintsIn(stmts, literal) ==
    IF stmts = <<>> THEN 0
    ELSE PrintsInStmt(Head(stmts), literal) + PrintsIn(Tail(stmts), literal)

\* the lines of the text that are `line`
LinesThatAre(text, line) == Cardinality({i \in DOMAIN text : text[i] = line})

\* gen_stmt is entered for a print statement
PrintBegins ==
    /\ gen_pc = "gen"
    /\ frames # <<>>
    /\ Head(frames).t = "gen_stmt"
    /\ Head(frames).stmt.k = "Print"
    /\ gen_pc' = "gen"

\* the Print arm goes on after gen_expr has returned
PrintEnds ==
    /\ gen_pc = "gen"
    /\ frames # <<>>
    /\ Head(frames).t = "print_int"
    /\ gen_pc' = "gen"

\* C23: print is lowered by the shape of its argument alone.  For a string
\* literal the string-format call on the literal's new data label is emitted
\* at once and the pool and the held registers stay as they are; for every
\* other argument nothing is emitted before gen_expr has evaluated it into a
\* register, and then the integer-format call on that register is emitted
\* and the register freed.  So the text generate returns has one
\* string-format call for each print of a literal and one integer-format
\* call for each other print, whatever the type of the argument.
C23_PrintByShape ==
    /\ [][PrintBegins =>
            IF Head(frames).stmt.expr.k = "StringLiteral"
            THEN /\ instrs' = instrs \o PrintStringLines(
                                  ".LC" \o ToString(Len(data_strings)))
                 /\ data_strings' =
                        Append(data_strings,
                               <<".LC" \o ToString(Len(data_strings)),
                                 Head(frames).stmt.expr.s>>)
                 /\ temps' = temps
                 /\ held' = held
                 /\ frames' = Tail(frames)
            ELSE /\ instrs' = instrs
                 /\ temps' = temps
                 /\ held' = held
                 /\ frames' = <<ExprFrame(Head(frames).stmt.expr),
                                [t |-> "print_int"]>> \o Tail(frames)]_allVars
    /\ [][PrintEnds =>
            /\ instrs' = instrs \o <<"\tadrp x0, fmt_int",
                                     "\tadd  x0, x0, :lo12:fmt_int",
                                     "\tmov x1, " \o Head(held), "\tbl printf">>
            /\ temps' = Append(temps, Head(held))
            /\ held' = Tail(held)]_allVars
    /\ [](gen_pc = "done" =>
            /\ LinesThatAre(gen_out.v, "\tadrp x0, fmt_str")
                  = PrintsIn(gen_program, TRUE)
            /\ LinesThatAre(gen_out.v, "\tadrp x0, fmt_int")
                  = PrintsIn(gen_program, FALSE))

\* string s = "hi"; print(s); print(s + "hi"); is generated: two
\* integer-format calls and no string-format call
C23_Witness ==
    /\ gen_pc = "done"
    /\ gen_program =
          <<StmtBlock(<<StmtVarDeclaration("s", ExprStringLiteral("hi")),
                        StmtPrint(ExprIdentifier("s")),
                        StmtPrint(ExprBinary(ExprIdentifier("s"), "Add",
                                             ExprStringLiteral("hi")))>>)>>
    /\ LinesThatAre(gen_out.v, "\tadrp x0, fmt_int") = 2
    /\ LinesThatAre(gen_out.v, "\tadrp x0, fmt_str") = 0
\* the loads and stores of a stack slot at one of the offsets
SlotLines(offsets) ==
    {StoreSlot(r, off) : r \in Registers, off \in offsets}
        \cup {LoadSlot(r, off)[1] : r \in Registers, off \in offsets}

\* the offsets alloc_var has given out or the Identifier arm falls back on
OffsetsSoFar == {SlotSize * n : n \in 0..(next_offset \div SlotSize)}

\* C25: every load or store of a stack slot in the generated code is inside
\* the frame the prologue reserves: its offset + 8 is at most 512, however
\* many names the program has.
C25_SlotsInsideFrame ==
    LET slot_lines == SlotLines(OffsetsSoFar)
        inside == SlotLines({off \in OffsetsSoFar : off + SlotSize <= FrameSize})
    IN  \A i \in DOMAIN instrs : instrs[i] \in slot_lines => instrs[i] \in inside

\* gen_stmt is about to be entered for a statement, nested or not
StatementBegins ==
    /\ gen_pc = "gen"
    /\ frames # <<>>
    /\ Head(frames).t = "gen_stmt"

\* C26: only the nesting of a single expression can exhaust the registers.
\* The generation of a program none of whose expressions needs more than
\* the 7 registers at once does not panic, however its ifs are nested; and
\* whenever the generation of a statement begins, the statements of then
\* and else blocks included, the whole pool is free.
C26_ExhaustionByExpressionOnly ==
    /\ gen_pc = "panicked" => NeedsTooMany
    /\ StatementBegins => temps = NewCodegen.temps
\* a store the generator emits: the name stored to, and whether the store is
\* that of a declaration that shadows the name of an enclosing scope
StoreEvent(name, shadows) == [name |-> name, shadows |-> shadows]

\* the stores gen_expr emits for the expression, in the order of generation
RECURSIVE StoreEventsOfExpr(_)
StoreEventsOfExpr(expr) ==
    CASE expr.k = "Assign" ->
            Append(StoreEventsOfExpr(expr.value), StoreEvent(expr.name, FALSE))
      [] expr.k = "Binary" ->
            StoreEventsOfExpr(expr.left) \o StoreEventsOfExpr(expr.right)
      [] OTHER -> <<>>

\* the sequences of the sequence, one after the other
RECURSIVE ConcatAll(_)
ConcatAll(seqs) ==
    IF seqs = <<>> THEN <<>>
    ELSE IF Len(seqs) = 1 THEN seqs[1]
    ELSE ConcatAll(SubSeq(seqs, 1, Len(seqs) \div 2))
             \o ConcatAll(SubSeq(seqs, Len(seqs) \div 2 + 1, Len(seqs)))

\* the names the statements declare in the scope they stand in: the
\* generator and the analyzer open no scope for a block statement
RECURSIVE LocalNames(_)
LocalNames(stmts) ==
    UNION {CASE stmts[i].k = "VarDeclaration" -> {stmts[i].name}
             [] stmts[i].k = "Block" -> LocalNames(stmts[i].stmts)
             [] OTHER -> {} : i \in DOMAIN stmts}

\* the stores gen_stmt emits for the statements, in the order of generation.
\* `outer` are the names the analyzer has in the enclosing scopes and `local`
\* those of the current scope (check_var_declaration inserts into the last
\* scope, check_if_statement enters a scope for each branch)
RECURSIVE StoreEvents(_, _, _)
StoreEventsOfStmt(stmt, outer, local) ==
    CASE stmt.k = "Block" -> StoreEvents(stmt.stmts, outer, local)
      [] stmt.k = "VarDeclaration" ->
            Append(StoreEventsOfExpr(stmt.value),
                   StoreEvent(stmt.name,
                              stmt.name \in outer /\ stmt.name \notin local))
      [] stmt.k = "If" ->
            StoreEventsOfExpr(stmt.condition)
                \o StoreEvents(stmt.then_block, outer \cup local, {})
                \o (IF stmt.else_block.some
                    THEN StoreEvents(stmt.else_block.v, outer \cup local, {})
                    ELSE <<>>)
      [] OTHER -> StoreEventsOfExpr(stmt.expr)

StoreEvents(stmts, outer, local) ==
    ConcatAll([i \in DOMAIN stmts |->
                  StoreEventsOfStmt(stmts[i], outer,
                                    local \cup LocalNames(SubSeq(stmts, 1, i - 1)))])

\* the stores to stack slots emitted so far
StoresEmitted ==
    LET stores == {StoreSlot(r, off) : r \in Registers, off \in OffsetsSoFar}
    IN  Cardinality({i \in DOMAIN instrs : instrs[i] \in stores})

\* the store of a declaration is about to be emitted
DeclarationStores ==
    /\ gen_pc = "gen"
    /\ frames # <<>>
    /\ Head(frames).t = "declaration_store"

\* C27: the generated code keeps the analyzer's scopes apart.  When the
\* store of a declaration of x is emitted and that declaration stands in a
\* branch of an if while an enclosing scope has a variable x, the slot
\* stored to is not the slot of that outer x.
C27_ShadowingKeepsOuterSlot ==
    DeclarationStores =>
        LET event == StoreEvents(gen_program, {}, {})[StoresEmitted + 1]
        IN  event.shadows => Head(frames).off # vars[event.name]
(***************************************************************************)
(* The pipeline's actions: main, up to the file out.s.  A stage that main  *)
(* calls runs by the actions of its component.  What main does with the    *)
(* file (the assembler, the emulator, the timings) is not modelled.        *)
(***************************************************************************)
MainInit ==
    /\ main_pc = "lexing"
    /\ main_program \in MainPrograms
    /\ tokens = <<>>
    /\ ast = <<>>
    /\ semantic_result = None
    /\ asm = None
    /\ out_s = None

\* line 39: lex_program(&program) is called
MainLex ==
    /\ main_pc = "lexing"
    /\ program' = main_program
    /\ matches' = <<>>
    /\ result' = <<>>
    /\ last_end' = 0
    /\ lex_pc' = "collect"
    /\ lex_next' = 0
    /\ accepted' = <<>>
    /\ main_pc' = "lexer"
    /\ UNCHANGED <<main_program, tokens, ast, semantic_result, asm, out_s>>
    /\ UNCHANGED <<optVars, semVars, genVars, parVars>>

\* lines 39-52: lex_program has returned the tokens, and parse gives Ok(ast)
MainParse ==
    /\ main_pc = "lexer"
    /\ lex_pc = "done"
    /\ parse(result).ok
    /\ tokens' = result
    /\ ast' = parse(result).v
    /\ main_pc' = "semantic"
    /\ UNCHANGED <<main_program, semantic_result, asm, out_s>>
    /\ MainFrame

\* lines 39-50: parse gives Err(e); the error is printed and main returns
MainParseError ==
    /\ main_pc = "lexer"
    /\ lex_pc = "done"
    /\ ~parse(result).ok
    /\ tokens' = result
    /\ main_pc' = "returned"
    /\ UNCHANGED <<main_program, ast, semantic_result, asm, out_s>>
    /\ MainFrame

\* lines 56-57: SemanticAnalyzer::new(), and analyze(&ast) is called
MainSemantic ==
    /\ main_pc = "semantic"
    /\ scopes' = NewSemanticAnalyzer.scopes
    /\ errors' = NewSemanticAnalyzer.errors
    /\ sem_program' = ast
    /\ sem_pc' = "loop"
    /\ sem_index' = 0
    /\ sem_entry' = NewSemanticAnalyzer
    /\ sem_before' = NewSemanticAnalyzer
    /\ sem_results' = <<>>
    /\ main_pc' = "analyzer"
    /\ UNCHANGED <<main_program, tokens, ast, semantic_result, asm, out_s>>
    /\ UNCHANGED <<optVars, lexVars, genVars, parVars>>

\* lines 57-66: analyze has returned; its errors, if any, are printed, and
\* main goes on
MainSemanticResult ==
    /\ main_pc = "analyzer"
    /\ sem_pc = "idle"
    /\ semantic_result' = Some(sem_results[Len(sem_results)].result)
    /\ main_pc' = "codegen"
    /\ UNCHANGED <<main_program, tokens, ast, asm, out_s>>
    /\ MainFrame

\* line 70: Codegen::new(), and generate(&ast) is called
MainCodegen ==
    /\ main_pc = "codegen"
    /\ GenSelf(NewCodegen)
    /\ gen_pc' = "new"
    /\ frames' = <<>>
    /\ held' = <<>>
    /\ gen_program' = ast
    /\ gen_out' = None
    /\ main_pc' = "generator"
    /\ UNCHANGED <<main_program, tokens, ast, semantic_result, asm, out_s>>
    /\ UNCHANGED <<optVars, semVars, lexVars, parVars>>

\* lines 70-73: generate has returned asm, which is written to out.s
MainWrite ==
    /\ main_pc = "generator"
    /\ gen_pc = "done"
    /\ asm' = gen_out
    /\ out_s' = gen_out
    /\ main_pc' = "assemble"
    /\ UNCHANGED <<main_program, tokens, ast, semantic_result>>
    /\ MainFrame

\* line 70: generate has panicked, and so does main
MainPanic ==
    /\ main_pc = "generator"
    /\ gen_pc = "panicked"
    /\ main_pc' = "panicked"
    /\ UNCHANGED <<main_program, tokens, ast, semantic_result, asm, out_s>>
    /\ MainFrame

MainNext ==
    \/ MainLex \/ LexCollect \/ LexSort \/ LexScan \/ LexReturn
    \/ MainParse \/ MainParseError
    \/ MainSemantic \/ AnalyzeLoop \/ AnalyzeReturn \/ MainSemanticResult
    \/ MainCodegen \/ Generate \/ GenStep \/ GenPanic \/ GenReturn
    \/ MainWrite \/ MainPanic

(***************************************************************************)
(* Properties of the pipeline                                              *)
(***************************************************************************)
ParsingFailed == main_pc = "returned"

AnalysisFailed == semantic_result.some /\ ~semantic_result.v.ok

\* C2: when parsing fails or the analysis returns diagnostics, the code
\* generator is not run: no assembly text exists and out.s is not written.
C2_FailureStopsCodegen ==
    (ParsingFailed \/ AnalysisFailed) => (asm = None /\ out_s = None)

(***************************************************************************)
(* The parser's actions                                                    *)
(***************************************************************************)
\* Result<Vec<Stmt>, ParseError> of parse
ParseResultOk(stmts) == [ok |-> TRUE, v |-> stmts]
ParseResultErr == [ok |-> FALSE, e |-> "UnexpectedToken"]

\* Parser::new(tokens)
ParInit ==
    /\ parser_tokens \in ParserInputs
    /\ parser_pos = 0
    /\ parser_stmts = <<>>
    /\ parser_pc = "new"
    /\ parser_result = None

\* parse is entered (line 42)
ParseCall ==
    /\ parser_pc = "new"
    /\ parser_stmts' = <<>>
    /\ parser_pc' = "loop"
    /\ UNCHANGED <<parser_tokens, parser_pos, parser_result>>
    /\ ParFrame

\* what one round of the loop makes of the parser, parse_stmt having
\* returned r: the statement is pushed, or `?` returns the error
ParseStmtDone(r) ==
    /\ parser_pos' = r.pos
    /\ IF r.ok
       THEN /\ parser_stmts' = Append(parser_stmts, r.v)
            /\ UNCHANGED <<parser_pc, parser_result>>
       ELSE /\ parser_pc' = "returned"
            /\ parser_result' = Some(ParseResultErr)
            /\ UNCHANGED parser_stmts
    /\ UNCHANGED parser_tokens

\* one round of the loop of parse (lines 44-46)
ParseLoop ==
    /\ parser_pc = "loop"
    /\ parser_pos < Len(parser_tokens)
    /\ ParseStmtDone(parse_stmt(parser_tokens, parser_pos))
    /\ ParFrame

\* the loop is left and parse returns the block (line 48)
ParseReturn ==
    /\ parser_pc = "loop"
    /\ parser_pos >= Len(parser_tokens)
    /\ parser_pc' = "returned"
    /\ parser_result' = Some(ParseResultOk(<<StmtBlock(parser_stmts)>>))
    /\ UNCHANGED <<parser_tokens, parser_pos, parser_stmts>>
    /\ ParFrame

ParNext == ParseCall \/ ParseLoop \/ ParseReturn

(***************************************************************************)
(* Properties of the parser                                                *)
(***************************************************************************)
IsPrimaryToken(t) ==
    t.type \in {"IntegerLiteral", "StringLiteral", "Identifier", "Maybe"}
AdditiveTokens == {"Plus", "Minus"}
ComparisonTokens == {"GreaterThan", "LessThan"}

\* the tokens are operands and operators of + - > < in turn, no parentheses
IsFlatExpr(toks) ==
    /\ Len(toks) % 2 = 1
    /\ \A i \in DOMAIN toks :
          IF i % 2 = 1 THEN IsPrimaryToken(toks[i])
          ELSE toks[i].type \in AdditiveTokens \cup ComparisonTokens

PrimaryOf(t) ==
    CASE t.type = "IntegerLiteral" -> ExprIntegerLiteral(t.n)
      [] t.type = "StringLiteral" -> ExprStringLiteral(t.s)
      [] t.type = "Identifier" -> ExprIdentifier(t.s)
      [] t.type = "Maybe" -> ExprMaybe

BinOpOf(t) ==
    CASE t.type = "Plus" -> "Add"
      [] t.type = "Minus" -> "Sub"
      [] t.type = "GreaterThan" -> "GreaterThan"
      [] t.type = "LessThan" -> "LessThan"

LastIndex(S) == CHOOSE i \in S : \A j \in S : j <= i

\* the operator a flat expression is split at: the last > or <, and the
\* last + or - where it has neither
SplitAt(toks) ==
    LET comparisons == {i \in DOMAIN toks : toks[i].type \in ComparisonTokens}
        additions == {i \in DOMAIN toks : toks[i].type \in AdditiveTokens}
    IN  IF comparisons # {} THEN LastIndex(comparisons) ELSE LastIndex(additions)

\* the tree of a flat expression where every operator is left-associative
\* and + and - bind tighter than > and <
RECURSIVE LeftAssociated(_)
LeftAssociated(toks) ==
    IF Len(toks) = 1 THEN PrimaryOf(toks[1])
    ELSE ExprBinary(LeftAssociated(SubSeq(toks, 1, SplitAt(toks) - 1)),
                    BinOpOf(toks[SplitAt(toks)]),
                    LeftAssociated(SubSeq(toks, SplitAt(toks) + 1, Len(toks))))

\* print(E); or int name = E; of a flat expression E
IsFlatPrint(toks) ==
    /\ Len(toks) >= 5
    /\ toks[1].type = "Print"
    /\ toks[2].type = "LeftParen"
    /\ toks[Len(toks) - 1].type = "RightParen"
    /\ toks[Len(toks)].type = "SemiColon"
    /\ IsFlatExpr(SubSeq(toks, 3, Len(toks) - 2))

IsFlatDeclaration(toks) ==
    /\ Len(toks) >= 5
    /\ toks[1].type = "Int"
    /\ toks[2].type = "Identifier"
    /\ toks[3].type = "Assign"
    /\ toks[Len(toks)].type = "SemiColon"
    /\ IsFlatExpr(SubSeq(toks, 4, Len(toks) - 1))

FlatStmtOf(toks) ==
    IF toks[1].type = "Print"
    THEN StmtPrint(LeftAssociated(SubSeq(toks, 3, Len(toks) - 2)))
    ELSE StmtVarDeclaration(toks[2].s,
                            LeftAssociated(SubSeq(toks, 4, Len(toks) - 1)))

\* the statements of a token sequence, each up to its semicolon
SemiColons(toks) == {i \in DOMAIN toks : toks[i].type = "SemiColon"}
NthSemiColon(toks, n) ==
    CHOOSE i \in SemiColons(toks) :
        Cardinality({j \in SemiColons(toks) : j < i}) = n - 1
StmtTokens(toks, n) ==
    SubSeq(toks, IF n = 1 THEN 1 ELSE NthSemiColon(toks, n - 1) + 1,
           NthSemiColon(toks, n))

\* a sequence of flat prints and declarations
IsFlatProgram(toks) ==
    /\ toks # <<>>
    /\ toks[Len(toks)].type = "SemiColon"
    /\ \A n \in 1..Cardinality(SemiColons(toks)) :
          IsFlatPrint(StmtTokens(toks, n)) \/ IsFlatDeclaration(StmtTokens(toks, n))

FlatProgramOf(toks) ==
    <<StmtBlock([n \in 1..Cardinality(SemiColons(toks)) |->
                    FlatStmtOf(StmtTokens(toks, n))])>>

ParsedAs(stmts) ==
    /\ parser_pc = "returned"
    /\ parser_result = Some(ParseResultOk(<<StmtBlock(stmts)>>))

\* C11: binary expressions are built left-associatively, + and - binding
\* tighter than > and <: the parse of prints and declarations of
\* expressions without parentheses is the left-associated tree, in the one
\* block parse returns; a - b - c is (a - b) - c, a + b > c is (a + b) > c,
\* and int x = 1 + 2; print(x); is the declaration of x with 1 + 2 and the
\* print of x.
C11_LeftAssociative ==
    /\ (parser_pc = "returned" /\ IsFlatProgram(parser_tokens))
          => parser_result = Some(ParseResultOk(FlatProgramOf(parser_tokens)))
    /\ (parser_pc = "returned" /\ parser_tokens = TokensSubSub)
          => ParsedAs(<<StmtPrint(
                 ExprBinary(ExprBinary(ExprIdentifier("a"), "Sub", ExprIdentifier("b")),
                            "Sub", ExprIdentifier("c")))>>)
    /\ (parser_pc = "returned" /\ parser_tokens = TokensAddGreater)
          => ParsedAs(<<StmtPrint(
                 ExprBinary(ExprBinary(ExprIdentifier("a"), "Add", ExprIdentifier("b")),
                            "GreaterThan", ExprIdentifier("c")))>>)
    /\ (parser_pc = "returned" /\ parser_tokens = TokensDeclPrint)
          => ParsedAs(<<StmtVarDeclaration("x",
                            ExprBinary(ExprIntegerLiteral(1), "Add",
                                       ExprIntegerLiteral(2))),
                        StmtPrint(ExprIdentifier("x"))>>)

\* a comparison of a difference with a third operand was parsed, the
\* difference on the comparison's side
C11_Witness ==
    /\ parser_pc = "returned"
    /\ parser_tokens = TokensCompareSub
    /\ ParsedAs(<<StmtVarDeclaration("y",
           ExprBinary(ExprBinary(ExprIdentifier("a"), "LessThan",
                                 ExprBinary(ExprIdentifier("b"), "Sub",
                                            ExprIntegerLiteral(1))),
                      "GreaterThan", ExprStringLiteral("s")))>>)

\* what may follow a prefix of a program: the rest of a text, from any token
\* on, or the rest of the production at hand (Rests), parentheses to close,
\* the end of a statement or the block of an if, and braces to close
Repeated(t, n) == [i \in 1..n |-> t]
Rests ==
    {<<>>,
     <<TokIdentifier("z")>>,
     <<TokIntegerLiteral(5)>>,
     <<Tok("LeftParen"), TokIdentifier("z")>>,
     <<Tok("LeftParen"), TokIntegerLiteral(5)>>,
     <<Tok("Assign"), TokIdentifier("z")>>,
     <<TokIdentifier("z"), Tok("Assign"), TokIdentifier("z")>>,
     <<Tok("LeftBrace")>>}
Ends == {<<>>, <<Tok("SemiColon")>>, <<Tok("LeftBrace"), Tok("RightBrace")>>}
MaxOpen == 4
Closers ==
    {rest \o Repeated(Tok("RightParen"), n) \o end \o Repeated(Tok("RightBrace"), m) :
        rest \in Rests, n \in 0..MaxOpen, end \in Ends, m \in 0..2}
Completions ==
    {SubSeq(toks, i, Len(toks)) : toks \in ParserTexts, i \in 1..22} \cup Closers

\* the tokens begin a program that parses: some completion makes them one
MatchesSoFar(toks) == \E rest \in Completions : parse(toks \o rest).ok

ParseFailed ==
    /\ parser_pc = "returned"
    /\ ~parser_result.v.ok

\* C12: parse fails with the one error UnexpectedToken, which carries no
\* statements, at the first token that does not match: the tokens before
\* the cursor begin a program, those up to and including the token at the
\* cursor (where there is one) begin none, and the cursor is where the
\* failure left it, no later token consumed.
C12_FailsAtFirstUnexpected ==
    ParseFailed =>
        /\ parser_result = Some(ParseResultErr)
        /\ parser_pos <= Len(parser_tokens)
        /\ MatchesSoFar(SubSeq(parser_tokens, 1, parser_pos))
        /\ parser_pos < Len(parser_tokens)
              => ~MatchesSoFar(SubSeq(parser_tokens, 1, parser_pos + 1))

\* parse failed in its second statement, at a token that others follow
C12_Witness ==
    /\ ParseFailed
    /\ Len(parser_stmts) = 1
    /\ parser_pos + 1 < Len(parser_tokens)
    /\ parser_result = Some(ParseResultErr)

\* the blocks the tokens open and do not close
BracesOpen(toks) ==
    Cardinality({i \in DOMAIN toks : toks[i].type = "LeftBrace"})
        - Cardinality({i \in DOMAIN toks : toks[i].type = "RightBrace"})

\* a call that advances the cursor or returns an error, the cursor not
\* before where the call found it
AdvancesOrFails(r, pos) == IF r.ok THEN r.pos > pos ELSE r.pos >= pos

\* one round of the loop of parse
ParseIterates ==
    /\ parser_pc = "loop"
    /\ parser_pos < Len(parser_tokens)
    /\ parser_pc' \in {"loop", "returned"}

\* C30: parse terminates on every token sequence.  The cursor never goes
\* back; a round of the loop of parse advances it or returns the error; so
\* does, from every position of the tokens, the statement a round of the
\* loop of parse_block_stmt parses and the operand a round of the loops of
\* parse_comparison and parse_addition parses after the operator; the loop
\* of a block at the end of the tokens returns UnexpectedToken, and so does
\* parse when the tokens leave a block open; and parse, once called, returns.
C30_ParseTerminates ==
    /\ [][parser_pos' >= parser_pos]_allVars
    /\ [][ParseIterates =>
            \/ parser_pos' > parser_pos /\ parser_pc' = "loop"
            \/ parser_pc' = "returned" /\ parser_result' = Some(ParseResultErr)]_allVars
    /\ [](\A pos \in 0..Len(parser_tokens) :
            /\ AdvancesOrFails(parse_stmt(parser_tokens, pos), pos)
            /\ AdvancesOrFails(parse_addition(parser_tokens, pos), pos)
            /\ AdvancesOrFails(parse_primary(parser_tokens, pos), pos))
    /\ [](/\ parse_block_loop(parser_tokens, Len(parser_tokens), <<>>)
                = UnexpectedToken(Len(parser_tokens))
          /\ (parser_pc = "returned" /\ BracesOpen(parser_tokens) > 0)
                => parser_result = Some(ParseResultErr))
    /\ (parser_pc = "new") ~> (parser_pc = "returned")

\* { paywall(5);  was parsed: the loop of the block met the end of the
\* tokens and parse returned UnexpectedToken, the cursor at the end
C30_Witness ==
    /\ parser_pc = "returned"
    /\ parser_tokens = SubSeq(TokensBlock, 1, 6)
    /\ BracesOpen(parser_tokens) = 1
    /\ parser_pos = Len(parser_tokens)
    /\ parser_result = Some(ParseResultErr)
(***************************************************************************)
(* Specifications                                                          *)
(***************************************************************************)
\* the optimizer, when no call of optimize is in progress
OptIdle ==
    /\ constants = EmptyMap
    /\ used_variables = {}
    /\ opt_fresh = TRUE
    /\ opt_pc = "idle"
    /\ current = <<>>
    /\ iteration = 0
    /\ opt_input = <<>>
    /\ call_fresh = TRUE
    /\ opt_program = <<>>
    /\ opt_results = <<>>

\* the analyzer, when no call of analyze is in progress
SemIdle ==
    /\ scopes = NewSemanticAnalyzer.scopes
    /\ errors = NewSemanticAnalyzer.errors
    /\ sem_pc = "idle"
    /\ sem_program = <<>>
    /\ sem_index = 0
    /\ sem_entry = NewSemanticAnalyzer
    /\ sem_before = NewSemanticAnalyzer
    /\ sem_results = <<>>

\* the lexer, when lex_program is not running
LexIdle ==
    /\ program = <<>>
    /\ matches = <<>>
    /\ result = <<>>
    /\ last_end = 0
    /\ lex_pc = "done"
    /\ lex_next = 0
    /\ accepted = <<>>

\* the code generator, when generate is not running
GenIdle ==
    /\ data_strings = NewCodegen.data_strings
    /\ vars = NewCodegen.vars
    /\ next_offset = NewCodegen.next_offset
    /\ instrs = NewCodegen.instrs
    /\ label_id = NewCodegen.label_id
    /\ temps = NewCodegen.temps
    /\ gen_pc = "done"
    /\ frames = <<>>
    /\ held = <<>>
    /\ gen_program = <<>>
    /\ gen_out = None

\* main, when it is not running
MainIdle ==
    /\ main_pc = "returned"
    /\ main_program = <<>>
    /\ tokens = <<>>
    /\ ast = <<>>
    /\ semantic_result = None
    /\ asm = None
    /\ out_s = None

\* the parser, after a parse of no tokens
ParIdle ==
    /\ parser_tokens = <<>>
    /\ parser_pos = 0
    /\ parser_stmts = <<>>
    /\ parser_pc = "returned"
    /\ parser_result = Some(ParseResultOk(<<StmtBlock(<<>>)>>))

\* the optimizer at work, on any of its inputs
InitOpt == OptInit /\ SemIdle /\ LexIdle /\ GenIdle /\ MainIdle /\ ParIdle
SpecOpt == InitOpt /\ [][OptNext]_allVars

\* optimize is a loop that nothing suspends: an iteration that can run runs.
\* This is WF_allVars(OptimizeLoop) written out: OptimizeLoop is enabled
\* exactly when opt_pc = "loop", and each of its steps changes iteration.
OptimizeLoopFair ==
    \/ []<>(opt_pc # "loop")
    \/ []<><<OptimizeLoop>>_allVars
SpecOptFair == SpecOpt /\ OptimizeLoopFair

\* the semantic analyzer at work, on any of its inputs
InitSem == SemInit /\ OptIdle /\ LexIdle /\ GenIdle /\ MainIdle /\ ParIdle
SpecSem == InitSem /\ [][SemNext]_allVars

\* the lexer at work, on any of its inputs
InitLex == LexInit /\ OptIdle /\ SemIdle /\ GenIdle /\ MainIdle /\ ParIdle
SpecLex == InitLex /\ [][LexNext]_allVars

\* the code generator at work, on any of its inputs; generate is a loop
\* that nothing suspends, so a step that can be taken is taken
InitGen == GenInit /\ OptIdle /\ SemIdle /\ LexIdle /\ MainIdle /\ ParIdle
SpecGen == InitGen /\ [][GenNext]_allVars /\ WF_allVars(GenNext)

\* main at work, on its program and on the other texts
InitMain == MainInit /\ OptIdle /\ SemIdle /\ LexIdle /\ GenIdle /\ ParIdle
SpecMain == InitMain /\ [][MainNext]_allVars

\* the parser at work, on any of its inputs
InitPar == ParInit /\ OptIdle /\ SemIdle /\ LexIdle /\ GenIdle /\ MainIdle
SpecPar == InitPar /\ [][ParNext]_allVars

\* parse runs on once it is called: weak fairness of its steps, that is
\* WF_allVars(ParNext) written out, a step being enabled until parse returns
ParNextFair ==
    \/ []<>(parser_pc = "returned")
    \/ []<><<ParNext>>_allVars
SpecParFair == SpecPar /\ ParNextFair

=============================================================================
